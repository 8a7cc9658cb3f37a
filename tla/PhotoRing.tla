----------------------------- MODULE PhotoRing -----------------------------
(***************************************************************************)
(* The photo buffer of photo-provider's cache.c, as operators on a ring    *)
(* record: one buffer addressed by logical position modulo its capacity.   *)
(*   [head, cursor)   delivered before, replayable by GetPrevPhoto         *)
(*   cursor           the photo delivered last, -1 when there is none      *)
(*   (cursor, tail)   prefetched, not delivered yet                        *)
(* The field fds is the set of memfds the process holds open: the ones in   *)
(* the buffer and the one a fetch has in hand.  A photo is a record with   *)
(* a field fd; its other fields are the business of the modules that store *)
(* photos here.                                                            *)
(***************************************************************************)
EXTENDS Integers

CONSTANTS
  HistoryDepth,   \* pp_cache_params.history_depth
  CacheDepth,     \* pp_cache_params.cache_depth
  NoPhoto         \* the content of a slot whose fd is -1

ASSUME RingAssumption == HistoryDepth \in Nat /\ CacheDepth \in Nat

prefetch_depth == IF CacheDepth = 0 THEN 1 ELSE CacheDepth
buf_cap == HistoryDepth + 1 + prefetch_depth

Slot(pos) == pos % buf_cap
At(c, pos) == c.buf[Slot(pos)]
Live(c) == c.head .. c.tail - 1
Occupied(c) == c.tail - c.head
Ahead(c) == c.tail - c.cursor - 1
Full(c) == Occupied(c) >= buf_cap

EmptyRing ==
  [ buf |-> [i \in 0 .. buf_cap - 1 |-> NoPhoto],
    head |-> 0, cursor |-> -1, tail |-> 0, fds |-> {} ]

\* The three ranges are in order, fit in the buffer and hold photos.
WellFormed(c) ==
  /\ c.head <= c.tail
  /\ c.cursor < c.tail
  /\ c.cursor = -1 => c.head = 0
  /\ c.cursor # -1 => c.head <= c.cursor
  /\ Occupied(c) <= buf_cap
  /\ \A p \in Live(c) : At(c, p) # NoPhoto

\* The photos found at a set of positions.
PhotosAt(c, P) == {At(c, p) : p \in P} \ {NoPhoto}

\* entry_close on every position of P: what is left in the buffer, and open.
ClosedBuf(c, P) ==
  [i \in 0 .. buf_cap - 1 |->
     IF \E p \in P : i = Slot(p) THEN NoPhoto ELSE c.buf[i]]
ClosedFds(c, P) == c.fds \ {photo.fd : photo \in PhotosAt(c, P)}

\* flush_locked: drops the delivered and the prefetched photos alike.
Flush(c) ==
  [ buf |-> ClosedBuf(c, Live(c)), head |-> 0, cursor |-> -1, tail |-> 0,
    fds |-> ClosedFds(c, Live(c)) ]

\* should_fetch_locked: prefetch is short of its target and there is room,
\* or room can be made without evicting the photo the consumer looks at.
ShouldFetch(c) ==
  /\ Ahead(c) < prefetch_depth
  /\ ~Full(c) \/ c.head < c.cursor

\* Mutant of EvictedHead: the loop forgets to stop at the current photo.
EvictedHeadPastCursor(c) ==
  LET room == c.tail - buf_cap + 1 IN IF room <= c.head THEN c.head ELSE room

\* The worker's eviction loop: advance head while the ring is full, never
\* past the current photo.
EvictedHead(c) ==
  LET room == c.tail - buf_cap + 1 IN
  IF room <= c.head \/ c.cursor <= c.head THEN c.head
  ELSE IF room < c.cursor THEN room ELSE c.cursor
Evict(c) ==
  LET P == c.head .. EvictedHead(c) - 1 IN
  [c EXCEPT !.buf = ClosedBuf(c, P), !.fds = ClosedFds(c, P),
            !.head = EvictedHead(c)]

\* The worker places a fetched photo at the end of the ring.
Put(c, photo) ==
  [c EXCEPT !.buf = [@ EXCEPT ![Slot(c.tail)] = photo], !.tail = @ + 1]

\* pp_cache_pop and pp_cache_pop_prev move the cursor over a live position.
HasNext(c) == c.cursor + 1 < c.tail
HasPrev(c) == c.cursor > c.head
Forward(c) == [c EXCEPT !.cursor = @ + 1]
Back(c) == [c EXCEPT !.cursor = @ - 1]

Current(c) == At(c, c.cursor)

\* memfd_create on the fetch path, and the close of the photo in hand when
\* the fetch is discarded.
OpenFd(c, fd) == [c EXCEPT !.fds = @ \cup {fd}]
CloseFd(c, fd) == [c EXCEPT !.fds = @ \ {fd}]
=============================================================================
