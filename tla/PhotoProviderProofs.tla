------------------------ MODULE PhotoProviderProofs ------------------------
(***************************************************************************)
(* What TLC checks of PhotoProvider on small rings and a few calls, proved   *)
(* for every depth of history and prefetch, every range of sizes, every set *)
(* of descriptors and any number of calls.                                 *)
(***************************************************************************)
EXTENDS PhotoProvider, SequenceTheorems, TLAPS

-----------------------------------------------------------------------------
(* Facts about the ring's operators. *)

\* The ring has room for the current photo and one prefetched one.
LEMMA Capacity ==
  /\ prefetch_depth \in Nat /\ prefetch_depth >= 1
  /\ buf_cap \in Nat /\ buf_cap >= 2
  BY RingAssumption DEF prefetch_depth, buf_cap

\* Numbers less than n apart have different remainders.
LEMMA DistinctRemainders ==
  ASSUME NEW n \in Nat \ {0}, NEW p \in Nat, NEW q \in Nat, p < q, q - p < n
  PROVE  p % n # q % n
<1>1. PICK a \in Int, r \in 0 .. n - 1 :
         p = n * a + r /\ r = p % n /\ a = p \div n
  BY SMT
<1>2. PICK b \in Int, s \in 0 .. n - 1 :
         q = n * b + s /\ s = q % n /\ b = q \div n
  BY SMT
<1>3. SUFFICES ASSUME r = s PROVE FALSE
  BY <1>1, <1>2
<1>4. q - p = n * (b - a)
  BY <1>1, <1>2, <1>3
<1>5. b - a >= 1
  <2>1. SUFFICES ASSUME b - a <= 0 PROVE FALSE
    OBVIOUS
  <2>2. n * (b - a) <= 0
    BY <2>1
  <2>3. QED
    BY <2>2, <1>4
<1>6. n * (b - a) >= n
  <2>1. n * (b - a) = n * (b - a - 1) + n
    OBVIOUS
  <2>2. n * (b - a - 1) >= 0
    BY <1>5
  <2>3. QED
    BY <2>1, <2>2
<1>7. QED
  BY <1>4, <1>6

\* Positions less than a capacity apart have different slots.
LEMMA DistinctSlots ==
  ASSUME NEW p \in Nat, NEW q \in Nat, p < q, q - p < buf_cap
  PROVE  Slot(p) # Slot(q)
<1>1. buf_cap \in Nat \ {0}
  BY Capacity
<1>2. QED
  BY <1>1, DistinctRemainders DEF Slot

\* Every position has a slot inside the buffer.
LEMMA SlotRange ==
  ASSUME NEW p \in Int
  PROVE  Slot(p) \in 0 .. buf_cap - 1
  BY Capacity DEF Slot

\* The live positions of a ring that fits its buffer have slots of their own,
\* and while the ring is not full the tail's slot is none of them.
LEMMA LiveSlots ==
  ASSUME NEW c \in Rings, WellFormed(c)
  PROVE  /\ \A p, q \in Live(c) : p # q => Slot(p) # Slot(q)
         /\ ~Full(c) => \A p \in Live(c) : Slot(p) # Slot(c.tail)
<1>1. c.head \in Nat /\ c.tail \in Nat /\ c.tail - c.head <= buf_cap
  BY DEF Rings, WellFormed, Occupied
<1>2. ASSUME NEW p \in Live(c), NEW q \in Live(c), p # q
      PROVE  Slot(p) # Slot(q)
  <2>1. p \in Nat /\ q \in Nat /\ p - q < buf_cap /\ q - p < buf_cap
    BY <1>1, <1>2, Capacity DEF Live
  <2>2. CASE p < q
    BY <2>1, <2>2, DistinctSlots
  <2>3. CASE q < p
    BY <2>1, <2>3, DistinctSlots
  <2>4. QED
    BY <1>2, <2>1, <2>2, <2>3
<1>3. ASSUME ~Full(c), NEW p \in Live(c)
      PROVE  Slot(p) # Slot(c.tail)
  <2>1. p \in Nat /\ p < c.tail /\ c.tail - p < buf_cap
    BY <1>1, <1>3, Capacity DEF Live, Full, Occupied
  <2>2. QED
    BY <1>1, <2>1, DistinctSlots
<1>4. QED
  BY <1>2, <1>3

\* A live position of a well formed ring holds a photo.
LEMMA LivePhotos ==
  ASSUME NEW c \in Rings, WellFormed(c), NEW p \in Live(c)
  PROVE  At(c, p) \in Photo
<1>1. p \in Int
  BY DEF Live, Rings
<1>2. QED
  BY <1>1, SlotRange DEF At, WellFormed, Rings

\* A ring updated in two or three of its fields.
LEMMA UpdateBufTail ==
  ASSUME NEW c \in Rings, NEW b, NEW t
  PROVE  [c EXCEPT !.buf = b, !.tail = t] =
           [buf |-> b, head |-> c.head, cursor |-> c.cursor, tail |-> t,
            fds |-> c.fds]
<1> DEFINE x == [c EXCEPT !.buf = b]
<1>1. x = [buf |-> b, head |-> c.head, cursor |-> c.cursor, tail |-> c.tail,
           fds |-> c.fds]
  BY DEF Rings
<1> HIDE DEF x
<1>2. [x EXCEPT !.tail = t] =
        [buf |-> b, head |-> c.head, cursor |-> c.cursor, tail |-> t,
         fds |-> c.fds]
  BY <1>1
<1>3. QED
  BY <1>2 DEF x

\* The same for the fields that an eviction changes.
LEMMA UpdateBufFdsHead ==
  ASSUME NEW c \in Rings, NEW b, NEW f, NEW h
  PROVE  [c EXCEPT !.buf = b, !.fds = f, !.head = h] =
           [buf |-> b, head |-> h, cursor |-> c.cursor, tail |-> c.tail,
            fds |-> f]
<1> DEFINE x == [c EXCEPT !.buf = b]
           y == [x EXCEPT !.fds = f]
<1>1. x = [buf |-> b, head |-> c.head, cursor |-> c.cursor, tail |-> c.tail,
           fds |-> c.fds]
  BY DEF Rings
<1> HIDE DEF x
<1>2. y = [buf |-> b, head |-> c.head, cursor |-> c.cursor, tail |-> c.tail,
           fds |-> f]
  BY <1>1
<1> HIDE DEF y
<1>3. [y EXCEPT !.head = h] =
        [buf |-> b, head |-> h, cursor |-> c.cursor, tail |-> c.tail, fds |-> f]
  BY <1>2
<1>4. QED
  BY <1>3 DEF x, y

\* Closing entries keeps the types and changes no slot but theirs.
LEMMA ClosedEntries ==
  ASSUME NEW c \in Rings, NEW P
  PROVE  /\ ClosedBuf(c, P) \in [0 .. buf_cap - 1 -> Photo \cup {NoPhoto}]
         /\ ClosedFds(c, P) \in SUBSET Memfd
         /\ \A p \in Int : (\A q \in P : Slot(q) # Slot(p)) =>
                              ClosedBuf(c, P)[Slot(p)] = At(c, p)
<1>1. ClosedBuf(c, P) \in [0 .. buf_cap - 1 -> Photo \cup {NoPhoto}]
  BY DEF ClosedBuf, Rings
<1>2. ClosedFds(c, P) \in SUBSET Memfd
  BY DEF ClosedFds, Rings
<1>3. ASSUME NEW p \in Int, \A q \in P : Slot(q) # Slot(p)
      PROVE  ClosedBuf(c, P)[Slot(p)] = At(c, p)
  BY <1>3, SlotRange DEF At, ClosedBuf
<1>4. QED
  BY <1>1, <1>2, <1>3

\* A flushed ring is well formed and has no live position.
LEMMA FlushRing ==
  ASSUME NEW c \in Rings
  PROVE  Flush(c) \in Rings /\ WellFormed(Flush(c)) /\ Live(Flush(c)) = {}
<1>1. Flush(c) \in Rings
  BY ClosedEntries DEF Flush, Rings
<1>2. QED
  BY <1>1, Capacity DEF Flush, WellFormed, Live, Occupied

\* Eviction drops positions before the current photo only, and leaves the
\* rest where they are.
LEMMA EvictRing ==
  ASSUME NEW c \in Rings, WellFormed(c)
  PROVE  /\ Evict(c) \in Rings
         /\ WellFormed(Evict(c))
         /\ Evict(c).cursor = c.cursor
         /\ Evict(c).tail = c.tail
         /\ Evict(c).head >= c.head
         /\ c.cursor >= c.head => Evict(c).head <= c.cursor
         /\ c.cursor < c.head => Evict(c).head = c.head
         /\ \A p \in Live(Evict(c)) : p \in Live(c) /\ At(Evict(c), p) = At(c, p)
<1> DEFINE h == EvictedHead(c)
           P == c.head .. h - 1
<1>1. /\ c.head \in Nat /\ c.tail \in Nat /\ c.cursor \in Nat \cup {-1}
      /\ c.head <= c.tail /\ c.cursor < c.tail
      /\ c.cursor = -1 => c.head = 0
      /\ c.cursor # -1 => c.head <= c.cursor
      /\ c.tail - c.head <= buf_cap
  BY DEF Rings, WellFormed, Occupied
<1>2. /\ h \in Nat /\ h >= c.head /\ h <= c.tail
      /\ c.cursor >= c.head => h <= c.cursor
      /\ c.cursor < c.head => h = c.head
  BY <1>1, Capacity DEF EvictedHead
<1>3. /\ ClosedBuf(c, P) \in [0 .. buf_cap - 1 -> Photo \cup {NoPhoto}]
      /\ ClosedFds(c, P) \in SUBSET Memfd
      /\ \A p \in Int : (\A q \in P : Slot(q) # Slot(p)) =>
                           ClosedBuf(c, P)[Slot(p)] = At(c, p)
  BY ClosedEntries
<1>4. Evict(c) = [buf |-> ClosedBuf(c, P), head |-> h, cursor |-> c.cursor,
                  tail |-> c.tail, fds |-> ClosedFds(c, P)]
  <2>1. Evict(c) = [c EXCEPT !.buf = ClosedBuf(c, P), !.fds = ClosedFds(c, P),
                             !.head = h]
    BY Zenon DEF Evict
  <2> HIDE DEF h, P
  <2>2. QED
    BY <2>1, UpdateBufFdsHead
<1>5. Evict(c) \in Rings
  BY <1>1, <1>2, <1>3, <1>4 DEF Rings
<1>6. ASSUME NEW p \in Live(Evict(c))
      PROVE  p \in Live(c) /\ At(Evict(c), p) = At(c, p)
  <2>1. p \in Int /\ p >= h /\ p < c.tail
    BY <1>1, <1>2, <1>4, <1>6 DEF Live
  <2>2. p \in Live(c)
    BY <1>1, <1>2, <2>1 DEF Live
  <2>3. \A q \in c.head .. h - 1 : q \in Live(c) /\ q # p
    BY <1>1, <1>2, <2>1 DEF Live
  <2>4. ClosedBuf(c, P)[Slot(p)] = At(c, p)
    BY <1>3, <2>1, <2>2, <2>3, LiveSlots
  <2>5. QED
    BY <1>4, <2>2, <2>4 DEF At
<1>7. WellFormed(Evict(c))
  <2>1. \A p \in Live(Evict(c)) : At(Evict(c), p) # NoPhoto
    BY <1>6 DEF WellFormed
  <2>2. QED
    BY <1>1, <1>2, <1>4, <2>1, Capacity DEF WellFormed, Occupied
<1>8. QED
  BY <1>2, <1>4, <1>5, <1>6, <1>7

\* A photo placed in a ring with room joins the live ones and disturbs none.
LEMMA PutRing ==
  ASSUME NEW c \in Rings, WellFormed(c), ~Full(c), NEW photo \in Photo
  PROVE  /\ Put(c, photo) \in Rings
         /\ WellFormed(Put(c, photo))
         /\ Put(c, photo).head = c.head
         /\ Put(c, photo).cursor = c.cursor
         /\ Put(c, photo).tail = c.tail + 1
         /\ Put(c, photo).fds = c.fds
         /\ Live(Put(c, photo)) = Live(c) \cup {c.tail}
         /\ At(Put(c, photo), c.tail) = photo
         /\ \A p \in Live(c) : At(Put(c, photo), p) = At(c, p)
<1> DEFINE d == Put(c, photo)
<1>1. /\ c.head \in Nat /\ c.tail \in Nat /\ c.cursor \in Nat \cup {-1}
      /\ c.buf \in [0 .. buf_cap - 1 -> Photo \cup {NoPhoto}]
      /\ c.fds \subseteq Memfd
      /\ c.head <= c.tail /\ c.cursor < c.tail
      /\ c.cursor = -1 => c.head = 0
      /\ c.cursor # -1 => c.head <= c.cursor
      /\ c.tail - c.head < buf_cap
  BY Capacity DEF Rings, WellFormed, Occupied, Full
<1>2. Slot(c.tail) \in 0 .. buf_cap - 1
  <2>1. c.tail \in Int
    BY <1>1
  <2>2. QED
    BY <2>1, SlotRange
<1>3. d = [buf |-> [c.buf EXCEPT ![Slot(c.tail)] = photo], head |-> c.head,
           cursor |-> c.cursor, tail |-> c.tail + 1, fds |-> c.fds]
  BY UpdateBufTail DEF Put
<1> HIDE DEF d
<1>4. d \in Rings
  BY <1>1, <1>2, <1>3 DEF Rings
<1>5. Live(d) = Live(c) \cup {c.tail}
  BY <1>1, <1>3 DEF Live
<1>6. At(d, c.tail) = photo
  BY <1>1, <1>2, <1>3 DEF At
<1>7. ASSUME NEW p \in Live(c)
      PROVE  At(d, p) = At(c, p)
  <2>1. Slot(p) # Slot(c.tail)
    BY LiveSlots
  <2>2. p \in Int
    BY <1>1 DEF Live
  <2>3. Slot(p) \in 0 .. buf_cap - 1
    BY <2>2, SlotRange
  <2>4. QED
    BY <1>1, <1>2, <1>3, <2>1, <2>3 DEF At
<1>8. WellFormed(d)
  <2>1. \A p \in Live(d) : At(d, p) # NoPhoto
    BY <1>5, <1>6, <1>7, PhotoAssumption DEF WellFormed, Photo
  <2>2. d.head = c.head /\ d.tail = c.tail + 1 /\ d.cursor = c.cursor
    BY <1>3
  <2>3. QED
    BY <1>1, <2>1, <2>2, Capacity DEF WellFormed, Occupied
<1>9. QED
  BY <1>3, <1>4, <1>5, <1>6, <1>7, <1>8 DEF d

\* The cursor's moves and the descriptors' bookkeeping leave the photos alone.
LEMMA ForwardRing ==
  ASSUME NEW c \in Rings, WellFormed(c), HasNext(c)
  PROVE  /\ Forward(c) \in Rings /\ WellFormed(Forward(c))
         /\ Forward(c).cursor = c.cursor + 1
         /\ Forward(c).cursor \in Live(c)
         /\ Live(Forward(c)) = Live(c)
         /\ \A p : At(Forward(c), p) = At(c, p)
<1>1. Forward(c) = [buf |-> c.buf, head |-> c.head, cursor |-> c.cursor + 1,
                    tail |-> c.tail, fds |-> c.fds]
  BY DEF Forward, Rings
<1>2. /\ c.head \in Nat /\ c.tail \in Nat /\ c.cursor \in Nat \cup {-1}
      /\ c.cursor + 1 < c.tail
  BY DEF Rings, HasNext
<1>3. /\ Live(Forward(c)) = Live(c)
      /\ \A p : At(Forward(c), p) = At(c, p)
  BY <1>1 DEF Live, At
<1>4. Forward(c) \in Rings
  BY <1>1, <1>2 DEF Rings
<1>5. WellFormed(Forward(c))
  BY <1>1, <1>2, <1>3 DEF WellFormed, Occupied
<1>6. Forward(c).cursor \in Live(c)
  BY <1>1, <1>2 DEF WellFormed, Live
<1>7. QED
  BY <1>1, <1>3, <1>4, <1>5, <1>6

\* GetPrevPhoto's move of the cursor keeps the ring well formed and every photo
\* in place, and lands on a live position.
LEMMA BackRing ==
  ASSUME NEW c \in Rings, WellFormed(c), HasPrev(c)
  PROVE  /\ Back(c) \in Rings /\ WellFormed(Back(c))
         /\ Back(c).cursor = c.cursor - 1
         /\ Back(c).cursor \in Live(c)
         /\ Live(Back(c)) = Live(c)
         /\ \A p : At(Back(c), p) = At(c, p)
<1>1. Back(c) = [buf |-> c.buf, head |-> c.head, cursor |-> c.cursor - 1,
                 tail |-> c.tail, fds |-> c.fds]
  BY DEF Back, Rings
<1>2. /\ c.head \in Nat /\ c.tail \in Nat /\ c.cursor \in Nat
      /\ c.head <= c.cursor - 1 /\ c.cursor < c.tail
  BY DEF Rings, HasPrev, WellFormed
<1>3. /\ Live(Back(c)) = Live(c)
      /\ \A p : At(Back(c), p) = At(c, p)
  BY <1>1 DEF Live, At
<1>4. Back(c) \in Rings
  BY <1>1, <1>2 DEF Rings
<1>5. WellFormed(Back(c))
  BY <1>1, <1>2, <1>3 DEF WellFormed, Occupied
<1>6. Back(c).cursor \in Live(c)
  BY <1>1, <1>2 DEF Live
<1>7. QED
  BY <1>1, <1>3, <1>4, <1>5, <1>6

\* Opening or closing a memfd that the buffer does not hold changes no position.
LEMMA FdRing ==
  ASSUME NEW c \in Rings, WellFormed(c), NEW fd,
         NEW d \in {CloseFd(c, fd), OpenFd(c, fd)},
         d = CloseFd(c, fd) \/ fd \in Memfd
  PROVE  /\ d \in Rings /\ WellFormed(d)
         /\ d.head = c.head /\ d.cursor = c.cursor /\ d.tail = c.tail
         /\ Live(d) = Live(c)
         /\ \A p : At(d, p) = At(c, p)
<1>1. PICK F \in SUBSET Memfd :
         d = [buf |-> c.buf, head |-> c.head, cursor |-> c.cursor,
              tail |-> c.tail, fds |-> F]
  BY DEF CloseFd, OpenFd, Rings
<1>2. d \in Rings
  BY <1>1 DEF Rings
<1>3. Live(d) = Live(c) /\ \A p : At(d, p) = At(c, p)
  BY <1>1 DEF Live, At
<1>4. QED
  BY <1>1, <1>2, <1>3 DEF WellFormed, Occupied

\* The ring that pp_cache_init makes is well formed and empty.
LEMMA EmptyRingOK ==
  EmptyRing \in Rings /\ WellFormed(EmptyRing) /\ Live(EmptyRing) = {}
  BY Capacity DEF EmptyRing, Rings, WellFormed, Live, Occupied

-----------------------------------------------------------------------------
(* Types, the shape of the ring, and which thread is where. *)

StateOK == TypeOK /\ RingShape /\ ThreadsInStep

\* Every step of the wwwslide backend keeps the types of its variables, and
\* gives the server no current id before there is a client.
LEMMA BackendStep ==
  ASSUME BackendTypeOK, ClientConfigured,
         \/ EnterFetch \/ Register \/ LoadHeight \/ LoadQr \/ PushConfig
         \/ RegistrationFails \/ ImageArrives \/ ImageFails
         \/ (\E w \in Size : ExchangeWidth(w))
         \/ (\E h \in Size : ExchangeHeight(h))
         \/ (\E v \in BOOLEAN : ExchangeQr(v))
         \/ RaiseNeedsRegister \/ TimePasses \/ ServerForgets
         \/ UNCHANGED backendVars
  PROVE  BackendTypeOK' /\ ClientConfigured'
<1> USE DEF BackendTypeOK, ClientConfigured, Config, Calls
<1>1. CASE EnterFetch \/ Register \/ LoadHeight \/ LoadQr
  BY <1>1 DEF EnterFetch, Register, LoadHeight, LoadQr
<1>2. CASE PushConfig \/ RegistrationFails \/ ImageArrives \/ ImageFails
  BY <1>2 DEF PushConfig, RegistrationFails, ImageArrives, ImageFails
<1>3. CASE \E w \in Size : ExchangeWidth(w)
  BY <1>3 DEF ExchangeWidth
<1>4. CASE \E h \in Size : ExchangeHeight(h)
  BY <1>4 DEF ExchangeHeight
<1>5. CASE \E v \in BOOLEAN : ExchangeQr(v)
  BY <1>5 DEF ExchangeQr
<1>6. CASE RaiseNeedsRegister \/ TimePasses \/ ServerForgets
  BY <1>6 DEF RaiseNeedsRegister, TimePasses, ServerForgets
<1>7. CASE UNCHANGED backendVars
  BY <1>7 DEF backendVars
<1>8. QED
  BY <1>1, <1>2, <1>3, <1>4, <1>5, <1>6, <1>7

\* What the worker's way back to the top of its loop does to ring c.
LEMMA LoopTopEffect ==
  ASSUME NEW c \in Rings, WellFormed(c), LoopTop(c), gen \in Nat,
         generation \in Nat
  PROVE  /\ ring' \in Rings /\ WellFormed(ring')
         /\ worker' \in {"done", "fetch", "wait"}
         /\ gen' \in Nat
         /\ (worker' = "fetch" /\ gen' = generation) \/ gen' = gen
         /\ \A p \in Live(ring') : p \in Live(c) /\ At(ring', p) = At(c, p)
         /\ worker' = "wait" => ~shutdown /\ ~ShouldFetch(ring')
         /\ \/ ring' = c /\ ~shutdown
            \/ worker' = "done" /\ Live(ring') = {} /\ shutdown
  BY FlushRing DEF LoopTop

\* The service starts in a well-typed, well-formed state.
THEOREM InitStateOK == Init => StateOK
<1> SUFFICES ASSUME Init PROVE StateOK
  OBVIOUS
<1>1. BackendTypeOK /\ ClientConfigured
  BY ConfigAssumption
  DEF Init, BackendInit, BackendTypeOK, ClientConfigured, Config, Calls
<1>2. InitialConfig.w \in Size /\ InitialConfig.h \in Size
  BY ConfigAssumption DEF Config
<1>3. TypeOK
  <2>1. arg \in [ow : Size, h : Size]
    BY <1>2 DEF Init
  <2>2. calls \in 0 .. MaxCalls
    BY CallsAssumption DEF Init
  <2>3. QED
    BY <1>1, <2>1, <2>2, EmptyRingOK DEF Init, TypeOK, WorkerStates, DbusStates,
        Unserved
<1>4. RingShape
  BY EmptyRingOK DEF Init, RingShape
<1>5. ThreadsInStep
  BY <1>1 DEF Init, BackendInit, ThreadsInStep
<1>6. QED
  BY <1>3, <1>4, <1>5 DEF StateOK

\* The photo the cursor gets to is one the ring holds.
LEMMA DeliveredPhoto ==
  ASSUME NEW c \in Rings, WellFormed(c), c.cursor \in Live(c)
  PROVE  Current(c) \in Photo
  BY LivePhotos DEF Current

\* Every step of the two threads and of the environment keeps the types, the
\* shape of the ring and the agreement of worker, call and hand.
THEOREM NextStateOK == StateOK /\ [Next]_vars => StateOK'
<1> SUFFICES ASSUME StateOK, [Next]_vars PROVE StateOK'
  OBVIOUS
<1> USE DEF StateOK
<1>0. /\ BackendTypeOK /\ ClientConfigured
      /\ ring \in Rings /\ WellFormed(ring)
      /\ gen \in Nat /\ generation \in Nat
  BY DEF TypeOK, RingShape, ThreadsInStep
<1>c. ReceiveCall => calls' \in 0 .. MaxCalls
  BY CallsAssumption DEF ReceiveCall, TypeOK
<1>1. CASE WorkerResumes
  <2>1. BackendTypeOK' /\ ClientConfigured'
    BY <1>0, <1>1, BackendStep DEF WorkerResumes
  <2>2. /\ ring' \in Rings /\ WellFormed(ring') /\ gen' \in Nat
        /\ worker' \in {"done", "fetch", "wait"}
    BY <1>0, <1>1, LoopTopEffect DEF WorkerResumes
  <2>3. QED
    BY <1>1, <2>1, <2>2
    DEF WorkerResumes, TypeOK, RingShape, ThreadsInStep, dbusVars, backendVars,
        WorkerStates
<1>2. CASE WorkerEntersBackend \/ WorkerInBackend
  <2>1. BackendTypeOK' /\ ClientConfigured'
    BY <1>0, <1>2, BackendStep DEF WorkerEntersBackend, WorkerInBackend
  <2>2. worker = "fetch"
    BY <1>2
    DEF WorkerEntersBackend, WorkerInBackend, ThreadsInStep, Register,
        LoadHeight, LoadQr, PushConfig
  <2>3. QED
    BY <1>2, <2>1, <2>2
    DEF WorkerEntersBackend, WorkerInBackend, TypeOK, RingShape, ThreadsInStep,
        cacheVars, dbusVars
<1>3. CASE FetchSucceeds
  <2>1. BackendTypeOK' /\ ClientConfigured'
    BY <1>0, <1>3, BackendStep DEF FetchSucceeds
  <2>2. PICK fd \in Memfd : /\ ring' = OpenFd(ring, fd)
                            /\ hand' = [fd |-> fd, cfg |-> client]
    BY <1>3 DEF FetchSucceeds
  <2>3. ring' \in Rings /\ WellFormed(ring')
    BY <1>0, <2>2, FdRing
  <2>4. hand' \in Photo /\ hand' # NoPhoto
    BY <1>0, <1>3, <2>2, PhotoAssumption
    DEF FetchSucceeds, ImageArrives, ClientConfigured, Photo
  <2>5. QED
    BY <1>3, <2>1, <2>3, <2>4
    DEF FetchSucceeds, ImageArrives, TypeOK, RingShape, ThreadsInStep, dbusVars,
        WorkerStates
<1>4. CASE FetchFails
  <2>1. BackendTypeOK' /\ ClientConfigured'
    BY <1>0, <1>4, BackendStep DEF FetchFails
  <2>2. worker = "fetch" /\ call' = "none"
    BY <1>4 DEF FetchFails, RegistrationFails, ImageFails, ThreadsInStep
  <2>3. QED
    BY <1>4, <2>1, <2>2
    DEF FetchFails, TypeOK, RingShape, ThreadsInStep, dbusVars, WorkerStates
<1>5. CASE DiscardFetched
  <2>1. BackendTypeOK' /\ ClientConfigured'
    BY <1>0, <1>5, BackendStep DEF DiscardFetched
  <2>2. PICK c \in {ring, Evict(ring)} : LoopTop(CloseFd(c, hand.fd))
    BY <1>5 DEF DiscardFetched
  <2>3. c \in Rings /\ WellFormed(c)
    BY <1>0, EvictRing
  <2>4. CloseFd(c, hand.fd) \in Rings /\ WellFormed(CloseFd(c, hand.fd))
    BY <2>3, FdRing
  <2>5. /\ ring' \in Rings /\ WellFormed(ring') /\ gen' \in Nat
        /\ worker' \in {"done", "fetch", "wait"}
    BY <1>0, <2>2, <2>4, LoopTopEffect
  <2>6. QED
    BY <1>5, <2>1, <2>5
    DEF DiscardFetched, TypeOK, RingShape, ThreadsInStep, dbusVars, backendVars,
        WorkerStates
<1>6. CASE StoreFetched
  <2>1. BackendTypeOK' /\ ClientConfigured'
    BY <1>0, <1>6, BackendStep DEF StoreFetched
  <2>2. hand \in Photo
    BY <1>6 DEF StoreFetched, ThreadsInStep, TypeOK
  <2>3. Evict(ring) \in Rings /\ WellFormed(Evict(ring)) /\ ~Full(Evict(ring))
    BY <1>0, <1>6, EvictRing DEF StoreFetched
  <2>4. /\ Put(Evict(ring), hand) \in Rings
        /\ WellFormed(Put(Evict(ring), hand))
    BY <2>2, <2>3, PutRing
  <2>5. /\ ring' \in Rings /\ WellFormed(ring') /\ gen' \in Nat
        /\ worker' \in {"done", "fetch", "wait"}
    BY <1>0, <1>6, <2>4, LoopTopEffect DEF StoreFetched
  <2>6. QED
    BY <1>6, <2>1, <2>5
    DEF StoreFetched, TypeOK, RingShape, ThreadsInStep, backendVars,
        WorkerStates, DbusStates
<1>7. ASSUME Deliver, HasNext(ring)
      PROVE  /\ ring' \in Rings /\ WellFormed(ring')
             /\ reply' \in Photo \cup Unserved
  BY <1>0, <1>7, ForwardRing, DeliveredPhoto DEF Deliver, Unserved
<1>8. CASE GetPhoto
  <2>1. BackendTypeOK' /\ ClientConfigured'
    BY <1>0, <1>8, BackendStep DEF GetPhoto
  <2>2. /\ ring' \in Rings /\ WellFormed(ring')
        /\ reply' \in Photo \cup Unserved
    BY <1>0, <1>7, <1>8 DEF GetPhoto, Unserved
  <2>3. QED
    BY <1>c, <1>8, <2>1, <2>2
    DEF GetPhoto, ReceiveCall, Deliver, Woken, TypeOK, RingShape, ThreadsInStep,
        backendVars, WorkerStates, DbusStates
<1>9. CASE GetPhotoWakes
  <2>1. BackendTypeOK' /\ ClientConfigured'
    BY <1>0, <1>9, BackendStep DEF GetPhotoWakes
  <2>2. /\ ring' \in Rings /\ WellFormed(ring')
        /\ reply' \in Photo \cup Unserved
    BY <1>0, <1>7, <1>9 DEF GetPhotoWakes, TypeOK
  <2>3. QED
    BY <1>9, <2>1, <2>2
    DEF GetPhotoWakes, Deliver, Woken, TypeOK, RingShape, ThreadsInStep,
        backendVars, WorkerStates, DbusStates
<1>10. CASE GetPhotoTimesOut \/ Join \/ SpuriousWakeup
  <2>1. BackendTypeOK' /\ ClientConfigured'
    BY <1>0, <1>10, BackendStep DEF GetPhotoTimesOut, Join, SpuriousWakeup
  <2>2. QED
    BY <1>10, <2>1
    DEF GetPhotoTimesOut, Join, SpuriousWakeup, TypeOK, RingShape,
        ThreadsInStep, cacheVars, backendVars, WorkerStates, DbusStates
<1>11. CASE GetPrevPhoto
  <2>1. BackendTypeOK' /\ ClientConfigured'
    BY <1>0, <1>11, BackendStep DEF GetPrevPhoto
  <2>2. /\ ring' \in Rings /\ WellFormed(ring')
        /\ reply' \in Photo \cup Unserved
    BY <1>0, <1>11, BackRing, DeliveredPhoto DEF GetPrevPhoto, Unserved
  <2>3. QED
    BY <1>c, <1>11, <2>1, <2>2
    DEF GetPrevPhoto, ReceiveCall, TypeOK, RingShape, ThreadsInStep, backendVars
<1>12. CASE SetTargetSizeRejected
  <2>1. BackendTypeOK' /\ ClientConfigured'
    BY <1>0, <1>12, BackendStep DEF SetTargetSizeRejected
  <2>2. QED
    BY <1>c, <1>12, <2>1
    DEF SetTargetSizeRejected, ReceiveCall, TypeOK, RingShape, ThreadsInStep,
        cacheVars, backendVars, Unserved
<1>13. ASSUME NEW w \in Size, NEW h \in Size, SetTargetSize(w, h)
       PROVE  StateOK'
  <2>1. BackendTypeOK' /\ ClientConfigured'
    BY <1>0, <1>13, BackendStep DEF SetTargetSize
  <2>2. target_w \in Size
    BY <1>0 DEF BackendTypeOK
  <2>3. QED
    BY <1>c, <1>13, <2>1, <2>2
    DEF SetTargetSize, ReceiveCall, ExchangeWidth, TypeOK, RingShape,
        ThreadsInStep, cacheVars, DbusStates, Unserved
<1>14. CASE SetTargetHeight
  <2>1. arg.h \in Size
    BY DEF TypeOK
  <2>2. BackendTypeOK' /\ ClientConfigured'
    BY <1>0, <1>14, <2>1, BackendStep DEF SetTargetHeight
  <2>3. QED
    BY <1>14, <2>2
    DEF SetTargetHeight, ExchangeHeight, TypeOK, RingShape, ThreadsInStep,
        cacheVars, DbusStates
<1>15. ASSUME NEW v \in BOOLEAN, SetEmbedQr(v)
       PROVE  StateOK'
  <2>1. BackendTypeOK' /\ ClientConfigured'
    BY <1>0, <1>15, BackendStep DEF SetEmbedQr
  <2>2. QED
    BY <1>c, <1>15, <2>1
    DEF SetEmbedQr, ReceiveCall, ExchangeQr, TypeOK, RingShape, ThreadsInStep,
        cacheVars, DbusStates, Unserved
<1>16. CASE RequestRegistration
  <2>1. BackendTypeOK' /\ ClientConfigured'
    BY <1>0, <1>16, BackendStep DEF RequestRegistration
  <2>2. QED
    BY <1>16, <2>1
    DEF RequestRegistration, RaiseNeedsRegister, TypeOK, RingShape,
        ThreadsInStep, cacheVars, DbusStates
<1>17. CASE Invalidate
  <2>1. BackendTypeOK' /\ ClientConfigured'
    BY <1>0, <1>17, BackendStep DEF Invalidate
  <2>2. ring' \in Rings /\ WellFormed(ring')
    BY <1>0, <1>17, FlushRing DEF Invalidate
  <2>3. QED
    BY <1>17, <2>1, <2>2
    DEF Invalidate, Woken, TypeOK, RingShape, ThreadsInStep, backendVars,
        WorkerStates, DbusStates
<1>18. CASE Shutdown
  <2>1. BackendTypeOK' /\ ClientConfigured'
    BY <1>0, <1>18, BackendStep DEF Shutdown
  <2>2. QED
    BY <1>18, <2>1
    DEF Shutdown, Woken, TypeOK, RingShape, ThreadsInStep, backendVars,
        WorkerStates, DbusStates
<1>19. CASE ClientGoesStale \/ ServerRestarts
  <2>1. BackendTypeOK' /\ ClientConfigured'
    BY <1>0, <1>19, BackendStep DEF ClientGoesStale, ServerRestarts
  <2>2. QED
    BY <1>19, <2>1, CallsAssumption
    DEF ClientGoesStale, ServerRestarts, TimePasses, ServerForgets, TypeOK,
        RingShape, ThreadsInStep, cacheVars, dbusVars
<1>20. CASE UNCHANGED vars
  <2>1. BackendTypeOK' /\ ClientConfigured'
    BY <1>0, <1>20, BackendStep DEF vars
  <2>2. QED
    BY <1>20, <2>1
    DEF vars, TypeOK, RingShape, ThreadsInStep, cacheVars, dbusVars, backendVars
<1>21. QED
  BY <1>1, <1>2, <1>3, <1>4, <1>5, <1>6, <1>8, <1>9, <1>10, <1>11, <1>12, <1>13,
     <1>14, <1>15, <1>16, <1>17, <1>18, <1>19, <1>20
  DEF Next, WorkerStep, DbusStep, Request, Exited

\* Every variable keeps its type, in every behaviour of the service.
THEOREM TypeCorrect == Spec => []TypeOK
<1>1. Spec => []StateOK
  BY InitStateOK, NextStateOK, PTL DEF Spec
<1>2. StateOK => TypeOK
  BY DEF StateOK
<1>3. QED
  BY <1>1, <1>2, PTL

\* The ring keeps its shape: history, current photo and prefetch are in order,
\* fit in the buffer, and every position of theirs holds a photo.
THEOREM RingKeepsShape == Spec => []RingShape
<1>1. Spec => []StateOK
  BY InitStateOK, NextStateOK, PTL DEF Spec
<1>2. StateOK => RingShape
  BY DEF StateOK
<1>3. QED
  BY <1>1, <1>2, PTL

-----------------------------------------------------------------------------
(* No photo of an outdated configuration. *)

\* At the start nothing is cached and a registration is due.
THEOREM InitFresh == Init => FetchesAreFresh
<1> SUFFICES ASSUME Init PROVE FetchesAreFresh
  OBVIOUS
<1>1. \A p \in Live(ring) : At(ring, p).cfg = Target
  BY EmptyRingOK DEF Init
<1>2. QED
  BY <1>1 DEF Init, BackendInit, FetchesAreFresh, Final, Settled, Unserved

\* Every step keeps each stage of a fetch that counts at the wanted
\* configuration.
THEOREM NextFresh ==
  StateOK /\ FetchesAreFresh /\ [Next]_vars => FetchesAreFresh'
<1> SUFFICES ASSUME StateOK, FetchesAreFresh, [Next]_vars
             PROVE  FetchesAreFresh'
  OBVIOUS
<1>0. /\ ring \in Rings /\ WellFormed(ring)
      /\ gen \in Nat /\ generation \in Nat /\ gen <= generation
      /\ call # "none" => worker = "fetch"
      /\ worker = "fetched" <=> hand # NoPhoto
  BY DEF StateOK, TypeOK, RingShape, ThreadsInStep, FetchesAreFresh
<1>a. Settled => \A p \in Live(ring) : At(ring, p).cfg = Target
  BY DEF FetchesAreFresh
<1>1. CASE WorkerResumes
  <2>1. /\ worker' \in {"done", "fetch", "wait"}
        /\ gen' \in {gen, generation}
        /\ \A p \in Live(ring') : p \in Live(ring) /\ At(ring', p) = At(ring, p)
    BY <1>0, <1>1, LoopTopEffect DEF WorkerResumes
  <2>2. call = "none"
    BY <1>0, <1>1 DEF WorkerResumes
  <2>3. UNCHANGED <<dbus, arg, reply, generation, backendVars>>
    BY <1>1 DEF WorkerResumes, dbusVars
  <2>4. Settled' => \A p \in Live(ring') : At(ring', p).cfg = Target'
    BY <1>a, <2>1, <2>3 DEF Settled, Final, Target, backendVars
  <2>5. QED
    BY <1>0, <2>1, <2>2, <2>3, <2>4
    DEF FetchesAreFresh, Settled, Final, Target, backendVars
<1>2. CASE WorkerEntersBackend
  <2>1. Settled' => \A p \in Live(ring') : At(ring', p).cfg = Target'
    BY <1>a, <1>2
    DEF WorkerEntersBackend, EnterFetch, Settled, Final, Target, cacheVars,
        dbusVars
  <2>2. QED
    BY <1>2, <2>1
    DEF WorkerEntersBackend, EnterFetch, FetchesAreFresh, Settled, Final,
        Target, cacheVars, dbusVars
<1>3. CASE WorkerInBackend
  <2>1. Settled' => \A p \in Live(ring') : At(ring', p).cfg = Target'
    BY <1>a, <1>3
    DEF WorkerInBackend, Register, LoadHeight, LoadQr, PushConfig, Settled,
        Final, Target, cacheVars, dbusVars
  <2>2. pushing \in Config
    BY DEF StateOK, TypeOK, BackendTypeOK
  <2>3. CASE Register \/ LoadHeight \/ LoadQr
    BY <1>3, <2>1, <2>2, <2>3
    DEF WorkerInBackend, Register, LoadHeight, LoadQr, FetchesAreFresh, Settled,
        Final, Target, Config, cacheVars, dbusVars
  <2>4. CASE PushConfig
    <3>1. pushing = [w |-> pushing.w, h |-> pushing.h, qr |-> pushing.qr]
      BY <2>2 DEF Config
    <3>2. (Settled /\ gen = generation) \/ (Final /\ ~needs_register) =>
            client' = Target
      BY <2>4, <3>1 DEF PushConfig, FetchesAreFresh, Target
    <3>3. QED
      BY <1>3, <2>1, <2>4, <3>2
      DEF WorkerInBackend, PushConfig, FetchesAreFresh, Settled, Final, Target,
          cacheVars, dbusVars
  <2>5. QED
    BY <1>3, <2>3, <2>4 DEF WorkerInBackend
<1>4. CASE FetchSucceeds
  <2>1. PICK fd \in Memfd : /\ ring' = OpenFd(ring, fd)
                            /\ hand' = [fd |-> fd, cfg |-> client]
    BY <1>4 DEF FetchSucceeds
  <2>2. Live(ring') = Live(ring) /\ \A p : At(ring', p) = At(ring, p)
    BY <1>0, <2>1, FdRing
  <2>3. Settled' => \A p \in Live(ring') : At(ring', p).cfg = Target'
    BY <1>a, <1>4, <2>2
    DEF FetchSucceeds, ImageArrives, Settled, Final, Target, dbusVars
  <2>4. hand'.cfg = client
    BY <2>1
  <2>5. QED
    BY <1>4, <2>3, <2>4
    DEF FetchSucceeds, ImageArrives, FetchesAreFresh, Settled, Final, Target,
        dbusVars
<1>5. CASE FetchFails
  <2>1. Settled' => \A p \in Live(ring') : At(ring', p).cfg = Target'
    BY <1>a, <1>5
    DEF FetchFails, RegistrationFails, ImageFails, Settled, Final, Target,
        dbusVars
  <2>2. QED
    BY <1>0, <1>5, <2>1
    DEF FetchFails, RegistrationFails, ImageFails, FetchesAreFresh, Settled,
        Final, Target, dbusVars
<1>6. CASE DiscardFetched
  <2>1. PICK c \in {ring, Evict(ring)} : LoopTop(CloseFd(c, hand.fd))
    BY <1>6 DEF DiscardFetched
  <2>2. /\ c \in Rings /\ WellFormed(c)
        /\ \A p \in Live(c) : p \in Live(ring) /\ At(c, p) = At(ring, p)
    BY <1>0, EvictRing
  <2>3. /\ CloseFd(c, hand.fd) \in Rings /\ WellFormed(CloseFd(c, hand.fd))
        /\ \A p \in Live(CloseFd(c, hand.fd)) :
             p \in Live(ring) /\ At(CloseFd(c, hand.fd), p) = At(ring, p)
    BY <2>2, FdRing
  <2>4. /\ worker' \in {"done", "fetch", "wait"}
        /\ gen' \in {gen, generation}
        /\ \A p \in Live(ring') : p \in Live(ring) /\ At(ring', p) = At(ring, p)
    BY <1>0, <2>1, <2>3, LoopTopEffect
  <2>5. call = "none"
    BY <1>0, <1>6 DEF DiscardFetched
  <2>6. UNCHANGED <<dbus, arg, reply, generation, backendVars>>
    BY <1>6 DEF DiscardFetched, dbusVars
  <2>7. Settled' => \A p \in Live(ring') : At(ring', p).cfg = Target'
    BY <1>a, <2>4, <2>6 DEF Settled, Final, Target, backendVars
  <2>8. QED
    BY <1>0, <2>4, <2>5, <2>6, <2>7
    DEF FetchesAreFresh, Settled, Final, Target, backendVars
<1>7. CASE StoreFetched
  <2> DEFINE c == Put(Evict(ring), hand)
  <2>1. hand \in Photo /\ gen = generation
    BY <1>0, <1>7 DEF StoreFetched, StateOK, TypeOK
  <2>2. /\ Evict(ring) \in Rings /\ WellFormed(Evict(ring))
        /\ ~Full(Evict(ring))
        /\ \A p \in Live(Evict(ring)) :
             p \in Live(ring) /\ At(Evict(ring), p) = At(ring, p)
    BY <1>0, <1>7, EvictRing DEF StoreFetched
  <2>3. /\ c \in Rings /\ WellFormed(c)
        /\ \A p \in Live(c) : \/ At(c, p) = hand
                              \/ p \in Live(ring) /\ At(c, p) = At(ring, p)
    BY <2>1, <2>2, PutRing
  <2>4. /\ worker' \in {"done", "fetch", "wait"}
        /\ gen' \in {gen, generation}
        /\ \A p \in Live(ring') : p \in Live(c) /\ At(ring', p) = At(c, p)
    <3> HIDE DEF c
    <3>1. LoopTop(c)
      BY <1>7 DEF StoreFetched, c
    <3>2. QED
      BY <1>0, <2>3, <3>1, LoopTopEffect
  <2>5. call = "none"
    BY <1>0, <1>7 DEF StoreFetched
  <2>6. /\ UNCHANGED <<arg, reply, generation, backendVars>>
        /\ dbus' \in {dbus, "pop_woken"}
        /\ dbus' # dbus => dbus = "pop"
    BY <1>7 DEF StoreFetched
  <2>7. Settled' = Settled /\ Final' = Final /\ Target' = Target
    BY <2>6 DEF Settled, Final, Target, backendVars
  <2>8. Settled => hand.cfg = Target
    BY <1>7, <2>1 DEF FetchesAreFresh, StoreFetched
  <2>9. Settled' => \A p \in Live(ring') : At(ring', p).cfg = Target'
    <3> HIDE DEF c
    <3>1. QED
      BY <1>a, <2>3, <2>4, <2>7, <2>8
  <2>10. QED
    BY <1>0, <2>4, <2>5, <2>6, <2>7, <2>9
    DEF FetchesAreFresh, Target, backendVars
<1>8. ASSUME Deliver, HasNext(ring), dbus \in {"idle", "pop_woken"},
             UNCHANGED <<generation, shutdown, gen, hand, arg, backendVars>>
      PROVE  FetchesAreFresh'
  <2>1. /\ ring'.cursor \in Live(ring)
        /\ Live(ring') = Live(ring) /\ \A p : At(ring', p) = At(ring, p)
    BY <1>0, <1>8, ForwardRing DEF Deliver
  <2>2. /\ Settled /\ Settled' /\ Final /\ Final' /\ Target' = Target
        /\ dbus' = "idle" /\ worker' = Woken(worker)
        /\ reply' \in {Current(ring'), NoCopy}
    BY <1>8 DEF Deliver, Settled, Final, Target, backendVars
  <2>3. Current(ring').cfg = Target
    BY <1>a, <2>1, <2>2 DEF Current
  <2>4. \A p \in Live(ring') : At(ring', p).cfg = Target'
    BY <1>a, <2>1, <2>2
  <2>5. QED
    BY <1>8, <2>2, <2>3, <2>4
    DEF FetchesAreFresh, Target, Woken, backendVars, Unserved
<1>9. CASE GetPhoto \/ GetPhotoWakes
  <2>1. CASE HasNext(ring)
    BY <1>8, <1>9, <2>1 DEF GetPhoto, GetPhotoWakes, ReceiveCall
  <2>2. CASE ~HasNext(ring)
    <3>1. /\ UNCHANGED <<ring, worker, generation, gen, hand, arg, backendVars>>
          /\ dbus \in {"idle", "pop_woken"} /\ dbus' = "pop"
          /\ reply' \in {reply, NoPhoto}
      BY <1>9, <2>2 DEF GetPhoto, GetPhotoWakes, ReceiveCall
    <3>2. Settled' => \A p \in Live(ring') : At(ring', p).cfg = Target'
      BY <1>a, <3>1 DEF Settled, Final, Target, backendVars
    <3>3. QED
      BY <3>1, <3>2 DEF FetchesAreFresh, Settled, Final, Target, backendVars,
          Unserved
  <2>3. QED
    BY <2>1, <2>2
<1>10. CASE GetPrevPhoto
  <2>1. /\ Live(ring') = Live(ring) /\ \A p : At(ring', p) = At(ring, p)
        /\ ring' = ring \/ ring'.cursor \in Live(ring)
    BY <1>0, <1>10, BackRing DEF GetPrevPhoto
  <2>2. /\ UNCHANGED <<generation, worker, gen, hand, dbus, arg, backendVars>>
        /\ dbus = "idle"
    BY <1>10 DEF GetPrevPhoto, ReceiveCall
  <2>3. \A p \in Live(ring') : At(ring', p).cfg = Target'
    BY <1>a, <2>1, <2>2 DEF Settled, Final, Target, backendVars
  <2>4. reply' \notin Unserved => reply'.cfg = Target'
    <3>1. CASE HasPrev(ring)
      <4>1. reply' \in {Current(ring'), NoCopy} /\ ring'.cursor \in Live(ring)
        BY <1>0, <1>10, <3>1, BackRing DEF GetPrevPhoto
      <4>2. QED
        BY <2>1, <2>3, <4>1 DEF Current, Unserved
    <3>2. CASE ~HasPrev(ring)
      BY <1>10, <3>2 DEF GetPrevPhoto, Unserved
    <3>3. QED
      BY <3>1, <3>2
  <2>5. QED
    BY <2>2, <2>3, <2>4 DEF FetchesAreFresh, Settled, Final, Target, backendVars
<1>11. CASE GetPhotoTimesOut \/ Join \/ SpuriousWakeup \/ Shutdown
  <2>1. /\ UNCHANGED <<ring, generation, gen, hand, arg, reply, backendVars>>
        /\ dbus' # dbus => /\ dbus \in {"idle", "pop", "pop_woken", "joining"}
                           /\ dbus' \in {"idle", "pop_woken", "joining", "exited"}
        /\ worker' # worker => worker' = "woken"
    BY <1>11
    DEF GetPhotoTimesOut, Join, SpuriousWakeup, Shutdown, Woken, cacheVars
  <2>2. Settled' = Settled /\ Final' = Final /\ Target' = Target
    BY <2>1 DEF Settled, Final, Target, backendVars
  <2>3. Settled' => \A p \in Live(ring') : At(ring', p).cfg = Target'
    BY <1>a, <2>1, <2>2
  <2>4. QED
    BY <2>1, <2>2, <2>3 DEF FetchesAreFresh, Target, backendVars
<1>12. CASE SetTargetSizeRejected \/ ClientGoesStale \/ ServerRestarts
            \/ UNCHANGED vars
  <2>1. /\ UNCHANGED <<ring, generation, worker, gen, hand, dbus, arg, call,
                       needs_register, pushing, client, targetVars>>
        /\ reply' \in {reply, NoPhoto}
    BY <1>12
    DEF SetTargetSizeRejected, ClientGoesStale, ServerRestarts, TimePasses,
        ServerForgets, vars, cacheVars, dbusVars, backendVars, targetVars
  <2>2. Settled' => \A p \in Live(ring') : At(ring', p).cfg = Target'
    BY <1>a, <2>1 DEF Settled, Final, Target, targetVars
  <2>3. QED
    BY <2>1, <2>2 DEF FetchesAreFresh, Settled, Final, Target, targetVars,
        Unserved
<1>13. ASSUME NEW w \in Size, NEW h \in Size, SetTargetSize(w, h)
       PROVE  FetchesAreFresh'
  <2>1. /\ dbus = "idle" /\ dbus' = "set_h" /\ arg'.ow = target_w
        /\ target_w' = w
        /\ UNCHANGED <<ring, generation, worker, gen, hand, target_h, embed_qr,
                       needs_register, call, pushing, client>>
        /\ reply' = NoPhoto
    BY <1>13 DEF SetTargetSize, ReceiveCall, ExchangeWidth, cacheVars
  <2>2. Settled' => w = target_w /\ Target' = Target
    BY <2>1 DEF Settled, Final, Target
  <2>3. Settled' => \A p \in Live(ring') : At(ring', p).cfg = Target'
    BY <1>a, <2>1, <2>2 DEF Settled, Final
  <2>4. QED
    BY <2>1, <2>3 DEF FetchesAreFresh, Settled, Final, Target, Unserved
<1>14. CASE SetTargetHeight
  <2>1. /\ dbus = "set_h" /\ dbus' \in {"idle", "raise"}
        /\ dbus' = "idle" => arg.ow = target_w /\ target_h' = target_h
        /\ UNCHANGED <<ring, generation, worker, gen, hand, target_w, embed_qr,
                       needs_register, call, pushing, client, arg, reply>>
    BY <1>14 DEF SetTargetHeight, ExchangeHeight, cacheVars
  <2>2. reply \in Unserved
    BY <2>1 DEF FetchesAreFresh
  <2>3. Settled' => \A p \in Live(ring') : At(ring', p).cfg = Target'
    BY <1>a, <2>1 DEF Settled, Final, Target
  <2>4. QED
    BY <2>1, <2>2, <2>3 DEF FetchesAreFresh, Settled, Final, Target
<1>15. ASSUME NEW v \in BOOLEAN, SetEmbedQr(v)
       PROVE  FetchesAreFresh'
  <2>1. /\ dbus = "idle" /\ dbus' \in {"idle", "raise"}
        /\ dbus' = "idle" => embed_qr' = embed_qr
        /\ UNCHANGED <<ring, generation, worker, gen, hand, target_w, target_h,
                       needs_register, call, pushing, client, arg>>
        /\ reply' = NoPhoto
    BY <1>15 DEF SetEmbedQr, ReceiveCall, ExchangeQr, cacheVars
  <2>2. Settled' => \A p \in Live(ring') : At(ring', p).cfg = Target'
    BY <1>a, <2>1 DEF Settled, Final, Target
  <2>3. QED
    BY <2>1, <2>2 DEF FetchesAreFresh, Settled, Final, Target, Unserved
<1>16. CASE RequestRegistration
  BY <1>16
  DEF RequestRegistration, RaiseNeedsRegister, FetchesAreFresh, Settled, Final,
      cacheVars
<1>17. CASE Invalidate
  <2>1. Live(ring') = {}
    BY <1>0, <1>17, FlushRing DEF Invalidate
  <2>2. generation' # gen /\ gen' <= generation' /\ gen' = gen
    BY <1>0, <1>17 DEF Invalidate
  <2>3. reply \in Unserved /\ Final
    BY <1>17 DEF Invalidate, FetchesAreFresh, Final
  <2>4. QED
    BY <1>17, <2>1, <2>2, <2>3
    DEF Invalidate, FetchesAreFresh, Settled, Final, Target, backendVars
<1>18. QED
  BY <1>1, <1>2, <1>3, <1>4, <1>5, <1>6, <1>7, <1>9, <1>10, <1>11, <1>12, <1>13,
     <1>14, <1>15, <1>16, <1>17
  DEF Next, WorkerStep, DbusStep, Request, Exited

\* Both inductive invariants hold in every reachable state.
LEMMA FreshAlways == Spec => [](StateOK /\ FetchesAreFresh)
<1>1. Init => StateOK /\ FetchesAreFresh
  BY InitStateOK, InitFresh
<1>2. StateOK /\ FetchesAreFresh /\ [Next]_vars => (StateOK /\ FetchesAreFresh)'
  BY NextStateOK, NextFresh
<1>3. QED
  BY <1>1, <1>2, PTL DEF Spec

\* Whatever the interleaving of a setter's stores with a fetch, no photo that
\* was rendered for an older configuration is cached or served once the setter
\* has replied.
THEOREM OutdatedPhotosNeverServed == Spec => []NoOutdatedPhoto
<1>1. StateOK /\ FetchesAreFresh => NoOutdatedPhoto
  BY DEF FetchesAreFresh, NoOutdatedPhoto, Settled, Final
<1>2. QED
  BY <1>1, FreshAlways, PTL

-----------------------------------------------------------------------------
(* No thread sleeps while it has something to do. *)

\* Going back gives the worker no reason to fetch: GetPrevPhoto need not wake it.
LEMMA BackNeedsNoFetch ==
  ASSUME NEW c \in Rings, WellFormed(c), HasPrev(c), ~ShouldFetch(c)
  PROVE  ~ShouldFetch(Back(c))
<1>1. /\ Back(c).cursor = c.cursor - 1 /\ Back(c).head = c.head
      /\ Back(c).tail = c.tail
  BY DEF Back, Rings
<1>2. /\ c.head \in Nat /\ c.tail \in Nat /\ c.cursor \in Nat \cup {-1}
      /\ buf_cap \in Nat /\ prefetch_depth \in Nat
  BY Capacity DEF Rings
<1>3. QED
  BY <1>1, <1>2 DEF ShouldFetch, Ahead, Full, Occupied

\* A ring with nothing to deliver always has room for a fetch.
LEMMA EmptyAheadFetches ==
  ASSUME NEW c \in Rings, WellFormed(c), ~HasNext(c)
  PROVE  ShouldFetch(c)
<1>1. /\ c.head \in Nat /\ c.tail \in Nat /\ c.cursor \in Nat \cup {-1}
      /\ c.cursor + 1 = c.tail
      /\ c.cursor = -1 => c.head = 0
      /\ c.cursor # -1 => c.head <= c.cursor
  BY DEF Rings, WellFormed, HasNext
<1>2. QED
  BY <1>1, Capacity DEF ShouldFetch, Ahead, Full, Occupied

\* Every step that gives a sleeping thread something to do wakes it.
THEOREM NextSleepersIdle == StateOK /\ SleepersIdle /\ [Next]_vars => SleepersIdle'
<1> SUFFICES ASSUME StateOK, SleepersIdle, [Next]_vars PROVE SleepersIdle'
  OBVIOUS
<1>0. /\ ring \in Rings /\ WellFormed(ring)
      /\ gen \in Nat /\ generation \in Nat
      /\ worker = "fetched" => hand \in Photo
      /\ call # "none" => worker = "fetch"
  BY DEF StateOK, TypeOK, RingShape, ThreadsInStep
<1>1. CASE WorkerResumes
  <2>1. worker' = "wait" => ~shutdown /\ ~ShouldFetch(ring')
    BY <1>0, <1>1, LoopTopEffect DEF WorkerResumes
  <2>2. HasNext(ring') => HasNext(ring)
    BY <1>0, <1>1, Capacity DEF WorkerResumes, LoopTop, Flush, HasNext
  <2>3. QED
    BY <1>1, <2>1, <2>2 DEF WorkerResumes, SleepersIdle, dbusVars
<1>2. CASE WorkerEntersBackend \/ WorkerInBackend \/ FetchFails
  BY <1>0, <1>2
  DEF WorkerEntersBackend, WorkerInBackend, FetchFails, SleepersIdle, cacheVars,
      dbusVars
<1>3. CASE FetchSucceeds
  <2>1. PICK fd \in Memfd : ring' = OpenFd(ring, fd)
    BY <1>3 DEF FetchSucceeds
  <2>2. HasNext(ring') = HasNext(ring)
    BY <1>0, <2>1, FdRing DEF HasNext
  <2>3. QED
    BY <1>3, <2>2 DEF FetchSucceeds, SleepersIdle, dbusVars
<1>4. CASE DiscardFetched
  <2>1. PICK c \in {ring, Evict(ring)} : LoopTop(CloseFd(c, hand.fd))
    BY <1>4 DEF DiscardFetched
  <2> DEFINE d == CloseFd(c, hand.fd)
  <2>2. /\ c \in Rings /\ WellFormed(c)
        /\ c.cursor = ring.cursor /\ c.tail = ring.tail
    BY <1>0, EvictRing
  <2>3. /\ d \in Rings /\ WellFormed(d)
        /\ d.cursor = ring.cursor /\ d.tail = ring.tail
    BY <2>2, FdRing
  <2> HIDE DEF d
  <2>4. LoopTop(d)
    BY <2>1 DEF d
  <2>5. worker' = "wait" => ~shutdown /\ ~ShouldFetch(ring')
    BY <1>0, <2>3, <2>4, LoopTopEffect
  <2>6. HasNext(ring') => HasNext(ring)
    BY <2>3, <2>4, Capacity DEF LoopTop, Flush, HasNext
  <2>7. QED
    BY <1>4, <2>5, <2>6 DEF DiscardFetched, SleepersIdle, dbusVars
<1>5. CASE StoreFetched
  <2>1. Put(Evict(ring), hand) \in Rings /\ WellFormed(Put(Evict(ring), hand))
    BY <1>0, <1>5, EvictRing, PutRing DEF StoreFetched
  <2>2. LoopTop(Put(Evict(ring), hand))
    BY <1>5 DEF StoreFetched
  <2>3. worker' = "wait" => ~shutdown /\ ~ShouldFetch(ring')
    BY <1>0, <2>1, <2>2, LoopTopEffect
  <2>4. dbus' # "pop"
    BY <1>5 DEF StoreFetched
  <2>5. QED
    BY <1>5, <2>3, <2>4 DEF StoreFetched, SleepersIdle
<1>6. CASE GetPhoto \/ GetPhotoWakes
  <2>1. CASE HasNext(ring)
    BY <1>6, <2>1 DEF GetPhoto, GetPhotoWakes, Deliver, Woken, SleepersIdle
  <2>2. CASE ~HasNext(ring)
    BY <1>6, <2>2 DEF GetPhoto, GetPhotoWakes, SleepersIdle
  <2>3. QED
    BY <2>1, <2>2
<1>7. CASE GetPrevPhoto
  <2>1. dbus' = "idle"
    BY <1>7 DEF GetPrevPhoto, ReceiveCall
  <2>2. ~ShouldFetch(ring) => ~ShouldFetch(ring')
    BY <1>0, <1>7, BackNeedsNoFetch DEF GetPrevPhoto
  <2>3. QED
    BY <1>7, <2>1, <2>2 DEF GetPrevPhoto, SleepersIdle
<1>8. CASE Invalidate \/ Shutdown
  BY <1>8 DEF Invalidate, Shutdown, Woken, SleepersIdle
<1>9. CASE GetPhotoTimesOut \/ Join \/ SetTargetHeight \/ RequestRegistration
           \/ SetTargetSizeRejected \/ ClientGoesStale \/ ServerRestarts
           \/ (\E w, h \in Size : SetTargetSize(w, h))
           \/ (\E v \in BOOLEAN : SetEmbedQr(v))
           \/ UNCHANGED vars
  <2>1. UNCHANGED <<ring, shutdown, worker>> /\ (dbus' = "pop" => dbus = "pop")
    BY <1>9
    DEF GetPhotoTimesOut, Join, SetTargetHeight, RequestRegistration,
        SetTargetSizeRejected, ClientGoesStale, ServerRestarts, SetTargetSize,
        SetEmbedQr, vars, cacheVars, dbusVars
  <2>2. QED
    BY <2>1 DEF SleepersIdle
<1>10. CASE SpuriousWakeup
  BY <1>10 DEF SpuriousWakeup, SleepersIdle
<1>11. QED
  BY <1>1, <1>2, <1>3, <1>4, <1>5, <1>6, <1>7, <1>8, <1>9, <1>10
  DEF Next, WorkerStep, DbusStep, Request, Exited

\* A caller asleep in GetPhoto and a worker asleep for lack of room never wait
\* for each other, whatever the two depths are.
THEOREM NeverMutualSleep == Spec => []NoMutualSleep
<1>1. Init => StateOK /\ SleepersIdle
  BY InitStateOK DEF Init, SleepersIdle
<1>2. StateOK /\ SleepersIdle /\ [Next]_vars => (StateOK /\ SleepersIdle)'
  BY NextStateOK, NextSleepersIdle
<1>3. StateOK /\ SleepersIdle => NoMutualSleep
  <2>1. SUFFICES ASSUME StateOK, SleepersIdle, dbus = "pop", worker = "wait"
                 PROVE  FALSE
    BY DEF NoMutualSleep
  <2>2. ring \in Rings /\ WellFormed(ring) /\ ~HasNext(ring) /\ ~ShouldFetch(ring)
    BY <2>1 DEF StateOK, TypeOK, RingShape, SleepersIdle
  <2>3. QED
    BY <2>2, EmptyAheadFetches
<1>4. QED
  BY <1>1, <1>2, <1>3, PTL DEF Spec

\* What both threads rely on holds in every reachable state.
THEOREM ThreadsRelyOnInv == Spec => []Inv
<1>1. Init => StateOK /\ SleepersIdle
  BY InitStateOK DEF Init, SleepersIdle
<1>2. StateOK /\ SleepersIdle /\ [Next]_vars => (StateOK /\ SleepersIdle)'
  BY NextStateOK, NextSleepersIdle
<1>3. StateOK /\ FetchesAreFresh /\ SleepersIdle => Inv
  BY DEF StateOK, Inv
<1>4. QED
  BY <1>1, <1>2, <1>3, FreshAlways, PTL DEF Spec

-----------------------------------------------------------------------------
(* No photo the consumer is at, or has yet to get, is lost. *)

KeepStep ==
  generation' = generation /\ worker' # "done" =>
    \A p \in Live(ring) :
      p >= ring.cursor => p \in Live(ring') /\ At(ring', p) = At(ring, p)

\* An eviction keeps the photo at the cursor and the ones after it.
LEMMA EvictKeeps ==
  ASSUME NEW c \in Rings, WellFormed(c), NEW p \in Live(c), p >= c.cursor
  PROVE  p \in Live(Evict(c)) /\ At(Evict(c), p) = At(c, p)
<1>1. /\ Evict(c).tail = c.tail
      /\ c.cursor >= c.head => Evict(c).head <= c.cursor
      /\ c.cursor < c.head => Evict(c).head = c.head
      /\ Evict(c) \in Rings
      /\ \A q \in Live(Evict(c)) : At(Evict(c), q) = At(c, q)
  BY EvictRing
<1>2. p \in Live(Evict(c))
  BY <1>1 DEF Live, Rings
<1>3. QED
  BY <1>1, <1>2

\* One step that neither invalidates nor ends the worker keeps the photo at
\* the cursor and the ones after it.
THEOREM StepKeepsPhotos == StateOK /\ [Next]_vars => KeepStep
<1> SUFFICES ASSUME StateOK, [Next]_vars, generation' = generation,
                    worker' # "done", NEW p \in Live(ring), p >= ring.cursor
             PROVE  p \in Live(ring') /\ At(ring', p) = At(ring, p)
  BY DEF KeepStep
<1>0. /\ ring \in Rings /\ WellFormed(ring)
      /\ gen \in Nat /\ generation \in Nat
      /\ worker = "fetched" => hand \in Photo
  BY DEF StateOK, TypeOK, RingShape, ThreadsInStep
<1>1. CASE WorkerResumes
  BY <1>1 DEF WorkerResumes, LoopTop
<1>2. CASE FetchSucceeds
  BY <1>0, <1>2, FdRing DEF FetchSucceeds
<1>3. CASE DiscardFetched
  <2>1. PICK c \in {ring, Evict(ring)} : LoopTop(CloseFd(c, hand.fd))
    BY <1>3 DEF DiscardFetched
  <2>2. c \in Rings /\ WellFormed(c) /\ p \in Live(c) /\ At(c, p) = At(ring, p)
    BY <1>0, EvictRing, EvictKeeps
  <2>3. ring' = CloseFd(c, hand.fd)
    BY <2>1 DEF LoopTop
  <2>4. QED
    BY <2>2, <2>3, FdRing
<1>4. CASE StoreFetched
  <2>1. /\ Evict(ring) \in Rings /\ WellFormed(Evict(ring))
        /\ ~Full(Evict(ring)) /\ hand \in Photo
    BY <1>0, <1>4, EvictRing DEF StoreFetched
  <2>2. p \in Live(Evict(ring)) /\ At(Evict(ring), p) = At(ring, p)
    BY <1>0, EvictKeeps
  <2>3. ring' = Put(Evict(ring), hand)
    BY <1>4 DEF StoreFetched, LoopTop
  <2>4. QED
    BY <2>1, <2>2, <2>3, PutRing
<1>5. CASE GetPhoto \/ GetPhotoWakes
  <2>1. CASE HasNext(ring)
    BY <1>0, <1>5, <2>1, ForwardRing DEF GetPhoto, GetPhotoWakes, Deliver
  <2>2. CASE ~HasNext(ring)
    BY <1>5, <2>2 DEF GetPhoto, GetPhotoWakes
  <2>3. QED
    BY <2>1, <2>2
<1>6. CASE GetPrevPhoto
  <2>1. CASE HasPrev(ring)
    BY <1>0, <1>6, <2>1, BackRing DEF GetPrevPhoto
  <2>2. CASE ~HasPrev(ring)
    BY <1>6, <2>2 DEF GetPrevPhoto
  <2>3. QED
    BY <2>1, <2>2
<1>7. CASE Invalidate
  BY <1>0, <1>7 DEF Invalidate
<1>8. CASE ring' = ring
  BY <1>8
<1>9. QED
  BY <1>1, <1>2, <1>3, <1>4, <1>5, <1>6, <1>7, <1>8
  DEF Next, WorkerStep, DbusStep, Request, Exited, WorkerEntersBackend,
      WorkerInBackend, FetchFails, GetPhotoTimesOut, SetTargetHeight,
      RequestRegistration, Join, SetTargetSizeRejected, SetTargetSize,
      SetEmbedQr, Shutdown, ClientGoesStale, ServerRestarts, SpuriousWakeup,
      vars, cacheVars

\* Only an invalidate or the shutdown drops the photo delivered last or one
\* not yet delivered; storing a fetched photo evicts or overwrites none.
THEOREM PhotosAlwaysKept == Spec => PhotosKept
<1>1. Spec => []StateOK
  BY InitStateOK, NextStateOK, PTL DEF Spec
<1>2. StateOK /\ [Next]_vars => [KeepStep]_vars
  BY StepKeepsPhotos
<1>3. Spec => [][KeepStep]_vars
  BY <1>1, <1>2, PTL DEF Spec
<1>4. QED
  BY <1>3 DEF PhotosKept, KeepStep

-----------------------------------------------------------------------------
(* Every open memfd has one owner. *)

LiveFds(c) == {At(c, p).fd : p \in Live(c)}
HeldFds == {photo.fd : photo \in {hand} \ {NoPhoto}}

\* The memfds that ring c has open are the ones of its photos, each of its own,
\* and the ones in held.
Owned(c, held) ==
  /\ c.fds = LiveFds(c) \cup held
  /\ \A p, q \in Live(c) : At(c, p).fd = At(c, q).fd => p = q
  /\ LiveFds(c) \cap held = {}

\* MemfdsOwnedOnce, with the reason why nothing is open at the exit.
OwnedOK ==
  /\ Owned(ring, HeldFds)
  /\ worker = "done" => ring.fds = {}
  /\ dbus = "exited" => worker = "done"

\* A ring with the same photos and the same memfds open.
LEMMA OwnedSame ==
  ASSUME NEW c, NEW d, NEW held, Owned(c, held), d.fds = c.fds,
         Live(d) = Live(c), \A p : At(d, p) = At(c, p)
  PROVE  Owned(d, held)
  BY DEF Owned, LiveFds

\* The closed descriptors are those of the photos at the positions.
LEMMA ClosedLive ==
  ASSUME NEW c \in Rings, WellFormed(c), NEW P \in SUBSET Live(c)
  PROVE  ClosedFds(c, P) = c.fds \ {At(c, p).fd : p \in P}
  BY DEF ClosedFds, PhotosAt, WellFormed

\* flush_locked closes what the ring holds and nothing else.
LEMMA OwnedFlush ==
  ASSUME NEW c \in Rings, WellFormed(c), NEW held, Owned(c, held)
  PROVE  Owned(Flush(c), held) /\ Flush(c).fds = held
<1>1. Flush(c).fds = c.fds \ LiveFds(c)
  BY ClosedLive DEF Flush, LiveFds
<1>2. Flush(c).fds = held
  BY <1>1 DEF Owned
<1>3. Live(Flush(c)) = {}
  BY FlushRing
<1>4. QED
  BY <1>2, <1>3 DEF Owned, LiveFds

\* What an eviction drops, it closes.
LEMMA OwnedEvict ==
  ASSUME NEW c \in Rings, WellFormed(c), NEW held, Owned(c, held)
  PROVE  Owned(Evict(c), held)
<1> DEFINE h == EvictedHead(c)
           P == c.head .. h - 1
<1>1. /\ c.head \in Nat /\ c.tail \in Nat /\ c.cursor \in Nat \cup {-1}
      /\ c.head <= c.tail /\ c.cursor < c.tail
      /\ c.tail - c.head <= buf_cap
  BY DEF Rings, WellFormed, Occupied
<1>2. h \in Nat /\ h >= c.head /\ h <= c.tail
  BY <1>1, Capacity DEF EvictedHead
<1>3. P \in SUBSET Live(c)
  BY <1>1, <1>2 DEF Live
<1>4. /\ Evict(c).head = h /\ Evict(c).tail = c.tail
      /\ Evict(c).fds = ClosedFds(c, P)
  <2>1. Evict(c) = [c EXCEPT !.buf = ClosedBuf(c, P), !.fds = ClosedFds(c, P),
                             !.head = h]
    BY Zenon DEF Evict
  <2> HIDE DEF h, P
  <2>2. QED
    BY <2>1, UpdateBufFdsHead
<1>5. Evict(c).fds = c.fds \ {At(c, p).fd : p \in P}
  BY <1>3, <1>4, ClosedLive
<1>6. Live(Evict(c)) = Live(c) \ P
  BY <1>1, <1>2, <1>4 DEF Live
<1>7. \A p \in Live(Evict(c)) : At(Evict(c), p) = At(c, p)
  BY EvictRing
<1>8. LiveFds(Evict(c)) = {At(c, p).fd : p \in Live(c) \ P}
  BY <1>6, <1>7 DEF LiveFds
<1> HIDE DEF h, P
<1>9. LiveFds(Evict(c)) = LiveFds(c) \ {At(c, p).fd : p \in P}
  BY <1>3, <1>8 DEF Owned, LiveFds
<1>10. {At(c, p).fd : p \in P} \subseteq LiveFds(c)
  BY <1>3 DEF LiveFds
<1>11. QED
  BY <1>5, <1>6, <1>7, <1>9, <1>10 DEF Owned

\* memfd_create on the fetch path, and the close of a discarded fetch.
LEMMA OwnedFd ==
  ASSUME NEW c \in Rings, WellFormed(c), NEW fd \in Memfd
  PROVE  /\ Owned(c, {}) /\ fd \notin c.fds => Owned(OpenFd(c, fd), {fd})
         /\ Owned(c, {fd}) => Owned(CloseFd(c, fd), {})
<1>1. /\ OpenFd(c, fd).fds = c.fds \cup {fd}
      /\ CloseFd(c, fd).fds = c.fds \ {fd}
  BY DEF OpenFd, CloseFd, Rings
<1>2. /\ Live(OpenFd(c, fd)) = Live(c) /\ Live(CloseFd(c, fd)) = Live(c)
      /\ \A p : At(OpenFd(c, fd), p) = At(c, p) /\ At(CloseFd(c, fd), p) = At(c, p)
  BY FdRing
<1>3. LiveFds(OpenFd(c, fd)) = LiveFds(c) /\ LiveFds(CloseFd(c, fd)) = LiveFds(c)
  BY <1>2 DEF LiveFds
<1>4. QED
  BY <1>1, <1>2, <1>3 DEF Owned

\* The memfd of a photo that is stored passes from the fetch to the ring.
LEMMA OwnedPut ==
  ASSUME NEW c \in Rings, WellFormed(c), ~Full(c), NEW photo \in Photo,
         Owned(c, {photo.fd})
  PROVE  Owned(Put(c, photo), {})
<1> DEFINE d == Put(c, photo)
<1>1. /\ d.fds = c.fds /\ Live(d) = Live(c) \cup {c.tail}
      /\ At(d, c.tail) = photo
      /\ \A p \in Live(c) : At(d, p) = At(c, p)
  BY PutRing
<1> HIDE DEF d
<1>2. LiveFds(d) = LiveFds(c) \cup {photo.fd}
  BY <1>1 DEF LiveFds
<1>3. \A p, q \in Live(d) : At(d, p).fd = At(d, q).fd => p = q
  BY <1>1 DEF Owned, LiveFds
<1>4. QED
  BY <1>1, <1>2, <1>3 DEF Owned, d

\* The top of worker_main's loop closes the photos it flushes.
LEMMA OwnedLoopTop ==
  ASSUME NEW c \in Rings, WellFormed(c), Owned(c, {}), LoopTop(c)
  PROVE  Owned(ring', {}) /\ (worker' = "done" => ring'.fds = {})
  BY OwnedFlush DEF LoopTop

\* Only the worker opens memfds and hands them over; the other steps close what
\* they drop or leave every photo where it is.
LEMMA NextOwned == StateOK /\ OwnedOK /\ [Next]_vars => OwnedOK'
<1> SUFFICES ASSUME StateOK, OwnedOK, [Next]_vars PROVE OwnedOK'
  OBVIOUS
<1>0. /\ ring \in Rings /\ WellFormed(ring)
      /\ worker = "fetched" <=> hand # NoPhoto
      /\ hand \in Photo \cup {NoPhoto}
      /\ call # "none" => worker = "fetch"
  BY DEF StateOK, TypeOK, RingShape, ThreadsInStep
<1>1. /\ Owned(ring, HeldFds)
      /\ worker = "done" => ring.fds = {}
      /\ dbus = "exited" => worker = "done"
  BY DEF OwnedOK
<1>2. ASSUME worker = "fetched"
      PROVE  hand \in Photo /\ hand.fd \in Memfd /\ HeldFds = {hand.fd}
  BY <1>0, <1>2, PhotoAssumption DEF HeldFds, Photo
<1>3. worker # "fetched" => HeldFds = {}
  BY <1>0 DEF HeldFds
<1>4. hand' = NoPhoto => HeldFds' = {}
  BY DEF HeldFds
<1>5. hand' = hand => HeldFds' = HeldFds
  BY DEF HeldFds
<1>6. CASE WorkerResumes
  <2>1. Owned(ring', {}) /\ (worker' = "done" => ring'.fds = {})
    BY <1>0, <1>1, <1>3, <1>6, OwnedLoopTop DEF WorkerResumes
  <2>2. HeldFds' = {} /\ dbus' = dbus /\ worker # "done"
    BY <1>3, <1>5, <1>6 DEF WorkerResumes, dbusVars
  <2>3. QED
    BY <1>1, <2>1, <2>2 DEF OwnedOK
<1>7. CASE FetchSucceeds
  <2>1. PICK fd \in Memfd \ ring.fds : /\ ring' = OpenFd(ring, fd)
                                       /\ hand' = [fd |-> fd, cfg |-> client]
    BY <1>7 DEF FetchSucceeds
  <2>2. worker = "fetch" /\ worker' = "fetched" /\ dbus' = dbus
    BY <1>0, <1>7 DEF FetchSucceeds, ImageArrives, dbusVars
  <2>3. Owned(ring', {fd})
    BY <1>0, <1>1, <1>3, <2>1, <2>2, OwnedFd
  <2>4. hand' # NoPhoto
    <3>1. StateOK'
      BY NextStateOK
    <3>2. QED
      BY <2>2, <3>1 DEF StateOK, ThreadsInStep
  <2>5. HeldFds' = {fd}
    BY <2>1, <2>4 DEF HeldFds
  <2>6. QED
    BY <1>1, <2>2, <2>3, <2>5 DEF OwnedOK
<1>8. CASE DiscardFetched
  <2>1. PICK c \in {ring, Evict(ring)} : LoopTop(CloseFd(c, hand.fd))
    BY <1>8 DEF DiscardFetched
  <2>2. worker = "fetched" /\ hand' = NoPhoto /\ dbus' = dbus
    BY <1>8 DEF DiscardFetched, dbusVars
  <2>3. c \in Rings /\ WellFormed(c) /\ Owned(c, {hand.fd})
    BY <1>0, <1>1, <1>2, <2>2, EvictRing, OwnedEvict
  <2>4. /\ CloseFd(c, hand.fd) \in Rings /\ WellFormed(CloseFd(c, hand.fd))
        /\ Owned(CloseFd(c, hand.fd), {})
    BY <1>2, <2>2, <2>3, FdRing, OwnedFd
  <2>5. Owned(ring', {}) /\ (worker' = "done" => ring'.fds = {})
    BY <2>1, <2>4, OwnedLoopTop
  <2>6. QED
    BY <1>1, <1>4, <2>2, <2>5 DEF OwnedOK
<1>9. CASE StoreFetched
  <2>1. /\ worker = "fetched" /\ hand' = NoPhoto /\ ~Full(Evict(ring))
        /\ LoopTop(Put(Evict(ring), hand))
        /\ dbus' = "exited" => dbus = "exited"
    BY <1>9 DEF StoreFetched
  <2>2. /\ Evict(ring) \in Rings /\ WellFormed(Evict(ring))
        /\ Owned(Evict(ring), {hand.fd}) /\ hand \in Photo
    BY <1>0, <1>1, <1>2, <2>1, EvictRing, OwnedEvict
  <2>3. /\ Put(Evict(ring), hand) \in Rings /\ WellFormed(Put(Evict(ring), hand))
        /\ Owned(Put(Evict(ring), hand), {})
    BY <2>1, <2>2, PutRing, OwnedPut
  <2>4. Owned(ring', {}) /\ (worker' = "done" => ring'.fds = {})
    BY <2>1, <2>3, OwnedLoopTop
  <2>5. QED
    BY <1>1, <1>4, <2>1, <2>4 DEF OwnedOK
<1>10. CASE \/ Deliver /\ HasNext(ring) /\ hand' = hand /\ dbus # "exited"
            \/ GetPrevPhoto
  <2>1. /\ ring'.fds = ring.fds /\ Live(ring') = Live(ring)
        /\ \A p : At(ring', p) = At(ring, p)
    <3>1. CASE ring' = Forward(ring) /\ HasNext(ring)
      BY <1>0, <3>1, ForwardRing DEF Forward, Rings
    <3>2. CASE ring' = Back(ring) /\ HasPrev(ring)
      BY <1>0, <3>2, BackRing DEF Back, Rings
    <3>3. CASE ring' = ring
      BY <3>3
    <3>4. QED
      BY <1>10, <3>1, <3>2, <3>3 DEF Deliver, GetPrevPhoto
  <2>2. Owned(ring', HeldFds)
    BY <1>1, <2>1, OwnedSame
  <2>3. /\ HeldFds' = HeldFds /\ dbus' # "exited"
        /\ worker' = "done" => worker = "done"
    BY <1>5, <1>10 DEF Deliver, GetPrevPhoto, ReceiveCall, Woken
  <2>4. QED
    BY <1>1, <2>1, <2>2, <2>3 DEF OwnedOK
<1>11. CASE GetPhoto \/ GetPhotoWakes
  <2>1. CASE HasNext(ring)
    BY <1>10, <1>11, <2>1 DEF GetPhoto, GetPhotoWakes, ReceiveCall
  <2>2. CASE ~HasNext(ring)
    BY <1>1, <1>5, <1>11, <2>2 DEF GetPhoto, GetPhotoWakes, OwnedOK
  <2>3. QED
    BY <2>1, <2>2
<1>12. CASE Invalidate
  <2>1. Owned(ring', HeldFds) /\ ring'.fds = HeldFds
    BY <1>0, <1>1, <1>12, OwnedFlush DEF Invalidate
  <2>2. /\ HeldFds' = HeldFds /\ dbus' # "exited"
        /\ worker' = "done" => worker = "done"
    BY <1>5, <1>12 DEF Invalidate, Woken
  <2>3. QED
    BY <1>3, <2>1, <2>2 DEF OwnedOK
<1>13. CASE /\ ring' = ring /\ hand' = hand
            /\ worker' = "done" <=> worker = "done"
            /\ dbus' = "exited" => dbus = "exited" \/ worker = "done"
  BY <1>1, <1>5, <1>13 DEF OwnedOK
<1>14. CASE \/ WorkerEntersBackend \/ WorkerInBackend \/ FetchFails
            \/ ClientGoesStale \/ ServerRestarts \/ SpuriousWakeup
            \/ UNCHANGED vars
  <2>1. FetchFails => worker = "fetch"
    BY <1>0 DEF FetchFails, RegistrationFails, ImageFails
  <2>2. QED
    BY <1>13, <1>14, <2>1
    DEF WorkerEntersBackend, WorkerInBackend, FetchFails, ClientGoesStale,
        ServerRestarts, SpuriousWakeup, vars, cacheVars, dbusVars
<1>15. CASE \/ GetPhotoTimesOut \/ SetTargetHeight \/ RequestRegistration \/ Join
            \/ SetTargetSizeRejected \/ (\E w, h \in Size : SetTargetSize(w, h))
            \/ (\E v \in BOOLEAN : SetEmbedQr(v)) \/ Shutdown
  BY <1>13, <1>15
  DEF GetPhotoTimesOut, SetTargetHeight, RequestRegistration, Join,
      SetTargetSizeRejected, SetTargetSize, SetEmbedQr, Shutdown, ReceiveCall,
      Woken, cacheVars
<1>16. QED
  BY <1>6, <1>7, <1>8, <1>9, <1>10, <1>11, <1>12, <1>14, <1>15
  DEF Next, WorkerStep, DbusStep, Request, Exited

\* No path of a fetch, a flush, an eviction or the shutdown leaks a memfd, closes
\* one twice or stores it twice, whatever overtakes the fetch.
THEOREM MemfdsAlwaysOwned == Spec => []MemfdsOwnedOnce
<1>1. Init => StateOK /\ OwnedOK
  <2>1. SUFFICES ASSUME Init PROVE OwnedOK
    BY InitStateOK
  <2>2. Live(ring) = {} /\ ring.fds = {} /\ HeldFds = {}
    BY <2>1, EmptyRingOK DEF Init, EmptyRing, HeldFds
  <2>3. QED
    BY <2>1, <2>2 DEF Init, OwnedOK, Owned, LiveFds
<1>2. StateOK /\ OwnedOK /\ [Next]_vars => (StateOK /\ OwnedOK)'
  BY NextStateOK, NextOwned
<1>3. StateOK /\ OwnedOK => MemfdsOwnedOnce
  <2>1. SUFFICES ASSUME StateOK, OwnedOK PROVE MemfdsOwnedOnce
    OBVIOUS
  <2>2. hand # NoPhoto => hand.fd \in HeldFds
    BY DEF HeldFds
  <2>3. QED
    BY <2>1, <2>2 DEF OwnedOK, Owned, LiveFds, HeldFds, MemfdsOwnedOnce
<1>4. QED
  BY <1>1, <1>2, <1>3, PTL DEF Spec

-----------------------------------------------------------------------------
(* Seen from its callers, photo-provider is an album with a bookmark. *)

\* The ring's photos as a sequence and the cursor as an index in it: what the
\* refinement mapping of Album makes of ring c.
Shelf(c) == [i \in 1 .. Occupied(c) |-> At(c, c.head + i - 1)]
Mark(c) == IF c.cursor = -1 THEN 0 ELSE c.cursor - c.head + 1

\* The numbers that ring c is made of.
LEMMA RingNumbers ==
  ASSUME NEW c \in Rings, WellFormed(c)
  PROVE  /\ c.head \in Nat /\ c.tail \in Nat /\ c.cursor \in Nat \cup {-1}
         /\ c.head <= c.tail /\ c.cursor < c.tail
         /\ c.cursor = -1 => c.head = 0
         /\ c.cursor # -1 => c.head <= c.cursor
         /\ Occupied(c) = c.tail - c.head /\ Occupied(c) \in 0 .. buf_cap
  BY Capacity DEF Rings, WellFormed, Occupied

\* A shelf is a sequence of the live photos.
LEMMA ShelfSeq ==
  ASSUME NEW c \in Rings, WellFormed(c)
  PROVE  /\ Shelf(c) \in Seq(Photo)
         /\ Len(Shelf(c)) = Occupied(c)
         /\ Mark(c) \in 0 .. Occupied(c)
<1>1. ASSUME NEW i \in 1 .. Occupied(c)
      PROVE  At(c, c.head + i - 1) \in Photo
  <2>1. c.head + i - 1 \in Live(c)
    BY RingNumbers DEF Live
  <2>2. QED
    BY <2>1, LivePhotos
<1>2. Occupied(c) \in Nat
  BY RingNumbers, Capacity
<1>3. Shelf(c) \in [1 .. Occupied(c) -> Photo]
  BY <1>1 DEF Shelf
<1>4. Shelf(c) \in Seq(Photo)
  BY <1>2, <1>3, SeqDef
<1>5. Len(Shelf(c)) = Occupied(c)
  <2>1. DOMAIN Shelf(c) = 1 .. Occupied(c)
    BY <1>3
  <2>2. /\ Len(Shelf(c)) \in Nat
        /\ DOMAIN Shelf(c) = 1 .. Len(Shelf(c))
    BY <1>4, LenProperties
  <2>3. QED
    BY <1>2, <2>1, <2>2
<1>6. Mark(c) \in 0 .. Occupied(c)
  BY RingNumbers DEF Mark
<1>7. QED
  BY <1>4, <1>5, <1>6

\* Rings with the same positions and the same photos look the same.
LEMMA ShelfSame ==
  ASSUME NEW c \in Rings, WellFormed(c), NEW d,
         d.head = c.head, d.tail = c.tail, \A p \in Live(c) : At(d, p) = At(c, p)
  PROVE  Shelf(d) = Shelf(c)
<1>1. Occupied(d) = Occupied(c)
  BY DEF Occupied
<1>2. ASSUME NEW i \in 1 .. Occupied(c)
      PROVE  At(d, d.head + i - 1) = At(c, c.head + i - 1)
  <2>1. c.head + i - 1 \in Live(c)
    BY RingNumbers DEF Live
  <2>2. QED
    BY <2>1
<1>3. QED
  BY <1>1, <1>2 DEF Shelf

\* A flushed ring is an empty album.
LEMMA ShelfFlush ==
  ASSUME NEW c \in Rings
  PROVE  Shelf(Flush(c)) = <<>> /\ Mark(Flush(c)) = 0
<1>1. Occupied(Flush(c)) = 0 /\ Mark(Flush(c)) = 0
  BY DEF Flush, Occupied, Mark
<1>2. /\ Len(Shelf(Flush(c))) = 0 /\ Shelf(Flush(c)) \in Seq(Photo)
  BY <1>1, FlushRing, ShelfSeq
<1>3. QED
  BY <1>1, <1>2, EmptySeq

\* A stored photo comes last in the album.
LEMMA ShelfPut ==
  ASSUME NEW c \in Rings, WellFormed(c), ~Full(c), NEW photo \in Photo
  PROVE  Shelf(Put(c, photo)) = Append(Shelf(c), photo) /\ Mark(Put(c, photo)) = Mark(c)
<1> DEFINE d == Put(c, photo)
<1>1. /\ d \in Rings /\ WellFormed(d)
      /\ d.head = c.head /\ d.cursor = c.cursor /\ d.tail = c.tail + 1
      /\ At(d, c.tail) = photo
      /\ \A p \in Live(c) : At(d, p) = At(c, p)
  BY PutRing
<1> HIDE DEF d
<1>2. /\ Shelf(c) \in Seq(Photo) /\ Len(Shelf(c)) = Occupied(c)
      /\ Shelf(d) \in Seq(Photo) /\ Len(Shelf(d)) = Occupied(d)
  BY <1>1, ShelfSeq
<1>3. /\ Append(Shelf(c), photo) \in Seq(Photo)
      /\ Len(Append(Shelf(c), photo)) = Occupied(c) + 1
      /\ \A i \in 1 .. Occupied(c) : Append(Shelf(c), photo)[i] = Shelf(c)[i]
      /\ Append(Shelf(c), photo)[Occupied(c) + 1] = photo
  BY <1>2, AppendProperties
<1>4. /\ Occupied(d) = Occupied(c) + 1 /\ Occupied(c) \in Nat
      /\ c.head + Occupied(c) = c.tail /\ c.head \in Nat
  BY <1>1, RingNumbers, Capacity DEF Occupied
<1>5. ASSUME NEW i \in 1 .. Occupied(c) + 1
      PROVE  Shelf(d)[i] = Append(Shelf(c), photo)[i]
  <2>1. Shelf(d)[i] = At(d, c.head + i - 1)
    BY <1>1, <1>4 DEF Shelf
  <2>2. CASE i = Occupied(c) + 1
    <3>1. c.head + i - 1 = c.tail
      BY <1>4, <2>2
    <3>2. QED
      BY <1>1, <1>3, <2>1, <2>2, <3>1
  <2>3. CASE i \in 1 .. Occupied(c)
    <3>1. c.head + i - 1 \in Live(c)
      BY <1>4, <2>3 DEF Live
    <3>2. Shelf(c)[i] = At(c, c.head + i - 1)
      BY <2>3 DEF Shelf
    <3>3. QED
      BY <1>1, <1>3, <2>1, <2>3, <3>1, <3>2
  <2>4. i \in 1 .. Occupied(c) \/ i = Occupied(c) + 1
    <3>1. \A n \in Nat : \A j \in 1 .. n + 1 : j \in 1 .. n \/ j = n + 1
      OBVIOUS
    <3>2. QED
      BY <1>4, <1>5, <3>1
  <2>5. QED
    BY <2>2, <2>3, <2>4
<1>6. Shelf(d) = Append(Shelf(c), photo)
  BY <1>2, <1>3, <1>4, <1>5, SeqEqual
<1>7. Mark(d) = Mark(c)
  BY <1>1 DEF Mark
<1>8. QED
  BY <1>6, <1>7 DEF d

\* An eviction drops at most one photo, the oldest, of a full album, and only if
\* the bookmark is past it.
LEMMA ShelfEvict ==
  ASSUME NEW c \in Rings, WellFormed(c)
  PROVE  \/ /\ Shelf(Evict(c)) = Shelf(c) /\ Mark(Evict(c)) = Mark(c)
            /\ Occupied(Evict(c)) = Occupied(c)
         \/ /\ Occupied(c) = buf_cap /\ ~Full(Evict(c)) /\ Mark(c) > 1
            /\ Shelf(Evict(c)) = Tail(Shelf(c))
            /\ Mark(Evict(c)) = Mark(c) - 1
<1> DEFINE d == Evict(c)
<1>1. /\ d \in Rings /\ WellFormed(d)
      /\ d.cursor = c.cursor /\ d.tail = c.tail
      /\ \A p \in Live(d) : p \in Live(c) /\ At(d, p) = At(c, p)
  BY EvictRing
<1>2. d.head = EvictedHead(c)
  BY UpdateBufFdsHead DEF Evict
<1> HIDE DEF d
<1>3. \/ d.head = c.head
      \/ /\ d.head = c.head + 1 /\ Occupied(c) = buf_cap /\ c.cursor > c.head
  BY <1>2, RingNumbers, Capacity DEF EvictedHead
<1>4. CASE d.head = c.head
  <2>1. Live(d) = Live(c)
    BY <1>1, <1>4 DEF Live
  <2>2. Shelf(d) = Shelf(c)
    BY <1>1, <1>4, <2>1, ShelfSame
  <2>3. Mark(d) = Mark(c) /\ Occupied(d) = Occupied(c)
    BY <1>1, <1>4 DEF Mark, Occupied
  <2>4. QED
    BY <2>2, <2>3 DEF d
<1>5. CASE d.head = c.head + 1 /\ Occupied(c) = buf_cap /\ c.cursor > c.head
  <2>1. Occupied(d) = buf_cap - 1 /\ Occupied(c) \in Nat /\ buf_cap >= 2
    BY <1>1, <1>5, RingNumbers, Capacity DEF Occupied
  <2>2. ~Full(d) /\ Mark(c) > 1 /\ Mark(d) = Mark(c) - 1
    BY <1>1, <1>5, <2>1, RingNumbers, Capacity DEF Full, Mark
  <2>3. /\ Shelf(c) \in Seq(Photo) /\ Len(Shelf(c)) = Occupied(c)
        /\ Shelf(d) \in Seq(Photo) /\ Len(Shelf(d)) = Occupied(d)
    BY <1>1, ShelfSeq
  <2>4. Shelf(c) # <<>>
    BY <1>5, <2>1, <2>3, EmptySeq
  <2>5. /\ Tail(Shelf(c)) \in Seq(Photo)
        /\ Len(Tail(Shelf(c))) = Len(Shelf(c)) - 1
        /\ \A i \in 1 .. Len(Tail(Shelf(c))) : Tail(Shelf(c))[i] = Shelf(c)[i + 1]
    BY <2>3, <2>4, HeadTailProperties
  <2>6. ASSUME NEW i \in 1 .. Occupied(d)
        PROVE  Shelf(d)[i] = Shelf(c)[i + 1]
    <3>1. Shelf(d)[i] = At(d, c.head + 1 + i - 1)
      BY <1>5 DEF Shelf
    <3>2. c.head + 1 + i - 1 \in Live(d)
      BY <1>1, <1>5, <2>1, RingNumbers DEF Live
    <3>3. i + 1 \in 1 .. Occupied(c)
      BY <1>5, <2>1
    <3>4. Shelf(c)[i + 1] = At(c, c.head + (i + 1) - 1)
      BY <3>3 DEF Shelf
    <3>5. c.head + (i + 1) - 1 = c.head + 1 + i - 1
      BY RingNumbers
    <3>6. QED
      BY <1>1, <3>1, <3>2, <3>4, <3>5
  <2>7. Len(Shelf(d)) = Len(Tail(Shelf(c)))
    BY <1>5, <2>1, <2>3, <2>5
  <2>8. \A i \in 1 .. Len(Shelf(d)) : Shelf(d)[i] = Tail(Shelf(c))[i]
    BY <2>3, <2>5, <2>6, <2>7
  <2>9. Shelf(d) = Tail(Shelf(c))
    BY <2>3, <2>5, <2>7, <2>8, SeqEqual
  <2>10. QED
    BY <1>5, <2>2, <2>9 DEF d
<1>6. QED
  BY <1>3, <1>4, <1>5

\* A move of the cursor moves the bookmark by one and shows the photo there.
LEMMA ShelfMoves ==
  ASSUME NEW c \in Rings, WellFormed(c)
  PROVE  /\ HasNext(c) =>
              /\ Shelf(Forward(c)) = Shelf(c) /\ Mark(Forward(c)) = Mark(c) + 1
              /\ Mark(c) < Occupied(c)
              /\ Current(Forward(c)) = Shelf(c)[Mark(c) + 1]
         /\ HasPrev(c) =>
              /\ Shelf(Back(c)) = Shelf(c) /\ Mark(Back(c)) = Mark(c) - 1
              /\ Mark(c) > 1
              /\ Current(Back(c)) = Shelf(c)[Mark(c) - 1]
<1>1. ASSUME HasNext(c)
      PROVE  /\ Shelf(Forward(c)) = Shelf(c) /\ Mark(Forward(c)) = Mark(c) + 1
             /\ Mark(c) < Occupied(c)
             /\ Current(Forward(c)) = Shelf(c)[Mark(c) + 1]
  <2>1. /\ Forward(c).cursor = c.cursor + 1
        /\ Forward(c).head = c.head /\ Forward(c).tail = c.tail
        /\ \A p : At(Forward(c), p) = At(c, p)
    BY <1>1, ForwardRing DEF Forward, Rings
  <2>2. Mark(Forward(c)) = Mark(c) + 1 /\ Mark(c) + 1 \in 1 .. Occupied(c)
    BY <1>1, <2>1, RingNumbers DEF Mark, HasNext
  <2>3. Shelf(c)[Mark(c) + 1] = At(c, c.head + (Mark(c) + 1) - 1)
    BY <2>2 DEF Shelf
  <2>4. c.head + (Mark(c) + 1) - 1 = c.cursor + 1
    BY RingNumbers DEF Mark
  <2>5. Current(Forward(c)) = At(c, c.cursor + 1)
    BY <2>1 DEF Current
  <2>6. Shelf(Forward(c)) = Shelf(c)
    BY <2>1, ShelfSame
  <2>7. Mark(c) < Occupied(c)
    BY <2>2, RingNumbers DEF Mark
  <2>8. QED
    BY <2>2, <2>3, <2>4, <2>5, <2>6, <2>7
<1>2. ASSUME HasPrev(c)
      PROVE  /\ Shelf(Back(c)) = Shelf(c) /\ Mark(Back(c)) = Mark(c) - 1
             /\ Mark(c) > 1
             /\ Current(Back(c)) = Shelf(c)[Mark(c) - 1]
  <2>1. /\ Back(c).cursor = c.cursor - 1
        /\ Back(c).head = c.head /\ Back(c).tail = c.tail
        /\ \A p : At(Back(c), p) = At(c, p)
    BY <1>2, BackRing DEF Back, Rings
  <2>2. /\ Mark(Back(c)) = Mark(c) - 1 /\ Mark(c) > 1
        /\ Mark(c) - 1 \in 1 .. Occupied(c)
    BY <1>2, <2>1, RingNumbers DEF Mark, HasPrev
  <2>3. Shelf(c)[Mark(c) - 1] = At(c, c.head + (Mark(c) - 1) - 1)
    BY <2>2 DEF Shelf
  <2>4. c.head + (Mark(c) - 1) - 1 = c.cursor - 1
    BY <1>2, RingNumbers DEF Mark, HasPrev
  <2>5. Current(Back(c)) = At(c, c.cursor - 1)
    BY <2>1 DEF Current
  <2>6. Shelf(Back(c)) = Shelf(c)
    BY <2>1, ShelfSame
  <2>7. QED
    BY <2>2, <2>3, <2>4, <2>5, <2>6
<1>3. QED
  BY <1>1, <1>2

\* What the worker's way back to the top of its loop shows of the ring: it is
\* emptied when the service ends, and left alone otherwise.
LEMMA ShelfLoopTop ==
  ASSUME NEW c \in Rings, WellFormed(c), LoopTop(c)
  PROVE  \/ Shelf(ring') = <<>> /\ Mark(ring') = 0 /\ shutdown
         \/ ring' = c /\ ~shutdown
  BY ShelfFlush DEF LoopTop

\* Steps of the album, in terms of the shelf, the mark and the reply.
ShelfStep(photo) ==
  \/ /\ Len(Shelf(ring)) < buf_cap
     /\ Shelf(ring)' = Append(Shelf(ring), photo)
     /\ Mark(ring)' = Mark(ring) /\ reply' = reply
  \/ /\ Len(Shelf(ring)) = buf_cap /\ Mark(ring) > 1
     /\ Shelf(ring)' = Append(Tail(Shelf(ring)), photo)
     /\ Mark(ring)' = Mark(ring) - 1 /\ reply' = reply
MarkStep ==
  \/ /\ Mark(ring) < Len(Shelf(ring)) /\ Mark(ring)' = Mark(ring) + 1
     /\ reply' \in {Shelf(ring)[Mark(ring)'], NoCopy} /\ Shelf(ring)' = Shelf(ring)
  \/ /\ Mark(ring) > 1 /\ Mark(ring)' = Mark(ring) - 1
     /\ reply' \in {Shelf(ring)[Mark(ring)'], NoCopy} /\ Shelf(ring)' = Shelf(ring)
ClearStep == Shelf(ring)' = <<>> /\ Mark(ring)' = 0 /\ reply' = reply
SameShelf == Shelf(ring)' = Shelf(ring) /\ Mark(ring)' = Mark(ring)

\* These are the steps of PhotoAlbum under the mapping.
LEMMA AlbumSteps ==
  ASSUME \/ \E photo \in Photo : ShelfStep(photo)
         \/ MarkStep
         \/ ClearStep
         \/ SameShelf /\ reply' \in {reply, NoPhoto}
  PROVE  [Album!Next]_Album!vars
<1>1. ASSUME NEW photo \in Photo, ShelfStep(photo) PROVE Album!Next
  BY <1>1
  DEF ShelfStep, Shelf, Mark, Album!Next, Album!Arrive, Album!ArriveForOldest
<1>2. CASE MarkStep
  BY <1>2 DEF MarkStep, Shelf, Mark, Album!Next, Album!GetPhoto, Album!GetPrevPhoto
<1>3. CASE ClearStep
  BY <1>3 DEF ClearStep, Shelf, Mark, Album!Next, Album!Clear
<1>4. CASE SameShelf /\ reply' = NoPhoto
  BY <1>4 DEF SameShelf, Shelf, Mark, Album!Next, Album!ShowNothing
<1>5. CASE SameShelf /\ reply' = reply
  BY <1>5 DEF SameShelf, Shelf, Mark, Album!vars
<1>6. QED
  BY <1>1, <1>2, <1>3, <1>4, <1>5

\* Every step of photo-provider is one of the album's, or changes nothing there.
LEMMA NextAlbum == StateOK /\ [Next]_vars => [Album!Next]_Album!vars
<1> SUFFICES ASSUME StateOK, [Next]_vars
             PROVE  \/ \E photo \in Photo : ShelfStep(photo)
                    \/ MarkStep
                    \/ ClearStep
                    \/ SameShelf /\ reply' \in {reply, NoPhoto}
  BY AlbumSteps
<1>0. /\ ring \in Rings /\ WellFormed(ring)
      /\ worker = "fetched" <=> hand # NoPhoto
      /\ hand \in Photo \cup {NoPhoto}
  BY DEF StateOK, TypeOK, RingShape, ThreadsInStep
<1>1. Len(Shelf(ring)) = Occupied(ring) /\ Occupied(ring) <= buf_cap
  BY <1>0, ShelfSeq, RingNumbers, Capacity
<1>2. CASE WorkerResumes
  <2>1. LoopTop(ring) /\ reply' = reply
    BY <1>2 DEF WorkerResumes, dbusVars
  <2>2. QED
    BY <1>0, <2>1, ShelfLoopTop DEF ClearStep, SameShelf
<1>3. CASE FetchSucceeds
  <2>1. PICK fd \in Memfd : ring' = OpenFd(ring, fd)
    BY <1>3 DEF FetchSucceeds
  <2>2. Shelf(ring') = Shelf(ring) /\ Mark(ring') = Mark(ring)
    BY <1>0, <2>1, FdRing, ShelfSame DEF Mark
  <2>3. QED
    BY <1>3, <2>2 DEF SameShelf, FetchSucceeds, dbusVars
<1>4. CASE DiscardFetched
  <2>1. PICK c \in {ring, Evict(ring)} : /\ LoopTop(CloseFd(c, hand.fd))
                                         /\ shutdown \/ c = ring \/ Full(c)
    BY <1>4 DEF DiscardFetched
  <2> DEFINE d == CloseFd(c, hand.fd)
  <2>2. c \in Rings /\ WellFormed(c)
    BY <1>0, EvictRing
  <2>3. /\ d \in Rings /\ WellFormed(d)
        /\ Shelf(d) = Shelf(c) /\ Mark(d) = Mark(c)
    BY <2>2, FdRing, ShelfSame DEF Mark
  <2>4. shutdown \/ (Shelf(c) = Shelf(ring) /\ Mark(c) = Mark(ring))
    BY <1>0, <2>1, ShelfEvict
  <2> HIDE DEF d
  <2>5. LoopTop(d)
    BY <2>1 DEF d
  <2>6. \/ Shelf(ring') = <<>> /\ Mark(ring') = 0
        \/ Shelf(ring') = Shelf(ring) /\ Mark(ring') = Mark(ring)
    BY <2>3, <2>4, <2>5, ShelfLoopTop
  <2>7. QED
    BY <1>4, <2>6 DEF ClearStep, SameShelf, DiscardFetched, dbusVars
<1>5. CASE StoreFetched
  <2> DEFINE c == Evict(ring)
             d == Put(c, hand)
  <2>1. /\ hand \in Photo /\ ~Full(c) /\ ~shutdown /\ LoopTop(d)
        /\ reply' = reply
    BY <1>0, <1>5 DEF StoreFetched
  <2>2. c \in Rings /\ WellFormed(c)
    BY <1>0, EvictRing
  <2>3. /\ d \in Rings /\ WellFormed(d)
        /\ Shelf(d) = Append(Shelf(c), hand) /\ Mark(d) = Mark(c)
    BY <2>1, <2>2, PutRing, ShelfPut
  <2>4. ring' = d
    BY <2>1 DEF LoopTop
  <2>5. \/ /\ Shelf(c) = Shelf(ring) /\ Mark(c) = Mark(ring)
           /\ Occupied(ring) < buf_cap
        \/ /\ Occupied(ring) = buf_cap /\ Mark(ring) > 1
           /\ Shelf(c) = Tail(Shelf(ring)) /\ Mark(c) = Mark(ring) - 1
    <3>1. Occupied(c) \in Int /\ buf_cap \in Int
      BY <2>2, RingNumbers, Capacity
    <3>2. Occupied(c) < buf_cap
      BY <2>1, <3>1 DEF Full
    <3>3. QED
      BY <1>0, <3>2, ShelfEvict
  <2> HIDE DEF c, d
  <2>6. ShelfStep(hand)
    BY <1>1, <2>1, <2>3, <2>4, <2>5 DEF ShelfStep
  <2>7. QED
    BY <2>1, <2>6
<1>6. CASE Deliver /\ HasNext(ring)
  <2>1. ring' = Forward(ring) /\ reply' \in {Current(ring'), NoCopy}
    BY <1>6 DEF Deliver
  <2>2. MarkStep
    BY <1>0, <1>1, <1>6, <2>1, ShelfMoves DEF MarkStep
  <2>3. QED
    BY <2>2
<1>7. CASE GetPrevPhoto
  <2>1. CASE HasPrev(ring)
    <3>1. ring' = Back(ring) /\ reply' \in {Current(ring'), NoCopy}
      BY <1>7, <2>1 DEF GetPrevPhoto
    <3>2. MarkStep
      BY <1>0, <1>1, <2>1, <3>1, ShelfMoves DEF MarkStep
    <3>3. QED
      BY <3>2
  <2>2. CASE ~HasPrev(ring)
    BY <1>7, <2>2 DEF GetPrevPhoto, SameShelf
  <2>3. QED
    BY <2>1, <2>2
<1>8. CASE Invalidate
  <2>1. Shelf(ring') = <<>> /\ Mark(ring') = 0
    BY <1>0, <1>8, ShelfFlush DEF Invalidate
  <2>2. QED
    BY <1>8, <2>1 DEF Invalidate, ClearStep
<1>9. CASE ring' = ring /\ reply' \in {reply, NoPhoto}
  BY <1>9 DEF SameShelf
<1>10. CASE GetPhoto \/ GetPhotoWakes
  BY <1>6, <1>9, <1>10 DEF GetPhoto, GetPhotoWakes
<1>11. CASE \/ WorkerEntersBackend \/ WorkerInBackend \/ FetchFails
            \/ ClientGoesStale \/ ServerRestarts \/ SpuriousWakeup
            \/ UNCHANGED vars
  BY <1>9, <1>11
  DEF WorkerEntersBackend, WorkerInBackend, FetchFails, ClientGoesStale,
      ServerRestarts, SpuriousWakeup, vars, cacheVars, dbusVars
<1>12. CASE \/ GetPhotoTimesOut \/ SetTargetHeight \/ RequestRegistration \/ Join
            \/ SetTargetSizeRejected \/ (\E w, h \in Size : SetTargetSize(w, h))
            \/ (\E v \in BOOLEAN : SetEmbedQr(v)) \/ Shutdown
  BY <1>9, <1>12
  DEF GetPhotoTimesOut, SetTargetHeight, RequestRegistration, Join,
      SetTargetSizeRejected, SetTargetSize, SetEmbedQr, Shutdown, cacheVars
<1>13. QED
  BY <1>2, <1>3, <1>4, <1>5, <1>7, <1>8, <1>10, <1>11, <1>12
  DEF Next, WorkerStep, DbusStep, Request, Exited

\* Whatever the worker fetches, stores, discards and evicts meanwhile, what the
\* callers see is an album: GetPhoto and GetPrevPhoto move by one photo and show
\* the photo they get to.
THEOREM ProviderImplementsAlbum == Spec => ImplementsAlbum
<1>1. Init => Album!Init
  <2>1. SUFFICES ASSUME Init PROVE Album!Init
    OBVIOUS
  <2>2. Shelf(ring) \in Seq(Photo) /\ Len(Shelf(ring)) = 0
    <3>1. ring \in Rings /\ WellFormed(ring) /\ Occupied(ring) = 0
      BY <2>1, EmptyRingOK DEF Init, EmptyRing, Occupied
    <3>2. QED
      BY <3>1, ShelfSeq
  <2>3. Shelf(ring) = <<>> /\ Mark(ring) = 0
    BY <2>1, <2>2, EmptySeq DEF Init, EmptyRing, Mark
  <2>4. QED
    BY <2>1, <2>3 DEF Init, Shelf, Mark, Album!Init
<1>2. Spec => []StateOK
  BY InitStateOK, NextStateOK, PTL DEF Spec
<1>3. QED
  BY <1>1, <1>2, NextAlbum, PTL DEF Spec, ImplementsAlbum, Album!Spec
=============================================================================
