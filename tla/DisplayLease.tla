----------------------------- MODULE DisplayLease -----------------------------
(***************************************************************************)
(* The framebuffer lease: display-mgr's AcquireLease and ReleaseLease with  *)
(* the watch it keeps on the holder (display-mgr/dbus.c), the library its   *)
(* clients use (lib/drm_mgr), and those clients: ambience, which follows    *)
(* display-mgr as it comes and goes, and tools that show one picture and    *)
(* end.  Every start of display-mgr makes a new framebuffer; the memory of  *)
(* an old one stays with whoever has it mapped.                             *)
(*                                                                         *)
(* Clients and display-mgr talk by the bus, which keeps the order of what   *)
(* it delivers to one of them, gives every connection a name of its own,    *)
(* answers for a service that is gone, and tells who watches a name that    *)
(* its connection has closed.                                               *)
(***************************************************************************)
EXTENDS Integers, Sequences

CONSTANTS
  Clients,
  Daemons,      \* the ones that follow display-mgr; the others are tools
  MaxStarts,    \* bound on client processes
  MaxBuffers    \* bound on starts of display-mgr

ASSUME LeaseAssumption ==
  /\ Daemons \subseteq Clients
  /\ MaxStarts \in Nat /\ MaxBuffers \in Nat

VARIABLES
  mgr_up, buffer,   \* display-mgr runs; which framebuffer is its latest
  holder,       \* the connection in g_lease_track, or Nobody
  inbox,        \* what display-mgr has yet to handle
  place,        \* where the client is
  conn,         \* its handle's connection, or Nobody
  mapped,       \* the framebuffer it has mapped, or 0
  reply,        \* what its call was answered with and it has yet to read
  again,        \* it frees its handle to ask once more
  events,       \* NameOwnerChanged of display-mgr, to be handled
  refused,      \* history: the last time it asked, display-mgr was there and
                \* it got nothing
  starts, conns

mgrVars == <<mgr_up, buffer, holder>>
clientVars == <<place, conn, mapped, reply, again, events, refused>>
vars == <<mgrVars, inbox, clientVars, starts, conns>>

\* down     no process         asked, releasing     in a call
\* idle     not in the library  ask, free, close     about to
Places == {"down", "ask", "asked", "idle", "free", "releasing", "close"}

Nobody == 0
Message(t, from) == [t |-> t, from |-> from]

NoReply == [t |-> "none", buffer |-> 0]
Failed == [t |-> "failed", buffer |-> 0]
Granted(b) == [t |-> "granted", buffer |-> b]

Alive(x) == \E c \in Clients : conn[c] = x

In(m, s) == \E i \in DOMAIN s : s[i] = m

Init ==
  /\ mgr_up = FALSE /\ buffer = 0 /\ holder = Nobody
  /\ inbox = <<>>
  /\ place = [c \in Clients |-> "down"]
  /\ conn = [c \in Clients |-> Nobody]
  /\ mapped = [c \in Clients |-> 0]
  /\ reply = [c \in Clients |-> NoReply]
  /\ again = [c \in Clients |-> FALSE]
  /\ events = [c \in Clients |-> <<>>]
  /\ refused = [c \in Clients |-> FALSE]
  /\ starts = 0 /\ conns = 0

-----------------------------------------------------------------------------
(* The bus. *)

\* A connection closes: display-mgr hears of it if it watches that name.
Disconnects(c) ==
  /\ conn' = [conn EXCEPT ![c] = Nobody]
  /\ inbox' = IF conn[c] # Nobody /\ holder = conn[c]
              THEN Append(inbox, Message("gone", conn[c])) ELSE inbox

\* A call goes to display-mgr's inbox; nobody there is an error.
Calls(c, t, from) ==
  IF mgr_up THEN inbox' = Append(inbox, Message(t, from)) /\ UNCHANGED reply
  ELSE reply' = [reply EXCEPT ![c] = Failed] /\ UNCHANGED inbox

InCall(c) == place[c] \in {"asked", "releasing"}

\* Whoever still waits on that connection gets the answer.
Answers(from, r) ==
  reply' = [c \in Clients |-> IF conn[c] = from /\ InCall(c) THEN r ELSE reply[c]]

\* Mutant of Listens: the watch is set up after the first attempt.
ListensLate(c) == c \in Daemons /\ place[c] = "idle"

\* main has the watch on display-mgr's name before it first asks.
Listens(c) == c \in Daemons /\ place[c] # "down"

Tells(up) ==
  events' = [c \in Clients |-> IF Listens(c) THEN Append(events[c], up)
                                             ELSE events[c]]

-----------------------------------------------------------------------------
(* display-mgr. *)

MgrStarts ==
  /\ ~mgr_up
  /\ buffer < MaxBuffers
  /\ mgr_up' = TRUE
  /\ buffer' = buffer + 1
  /\ Tells(TRUE)
  /\ UNCHANGED <<holder, inbox, place, conn, mapped, reply, again, refused,
                 starts, conns>>

\* It stops or dies; the bus answers what it had not.
MgrEnds ==
  /\ mgr_up
  /\ mgr_up' = FALSE
  /\ holder' = Nobody
  /\ inbox' = <<>>
  /\ reply' = [c \in Clients |->
                 IF InCall(c) /\ reply[c] = NoReply
                 THEN Failed ELSE reply[c]]
  /\ Tells(FALSE)
  /\ UNCHANGED <<buffer, place, conn, mapped, again, refused, starts, conns>>

Receives(t) ==
  /\ mgr_up
  /\ inbox # <<>>
  /\ Head(inbox).t = t
  /\ inbox' = Tail(inbox)
  /\ UNCHANGED <<mgr_up, buffer, place, conn, mapped, again, events, refused,
                 starts, conns>>

\* Mutant of AcquireLease: a sender that cannot be watched keeps the lease.
AcquireLeaseUnwatched ==
  /\ Receives("acquire")
  /\ LET from == Head(inbox).from IN
       IF holder \notin {Nobody, from}
       THEN Answers(from, Failed) /\ UNCHANGED holder
       ELSE Answers(from, Granted(buffer)) /\ holder' = from
\* method_acquire_lease.  Watching a name that is gone fails, and there is
\* nobody to tell.
AcquireLease ==
  /\ Receives("acquire")
  /\ LET from == Head(inbox).from IN
       IF holder \notin {Nobody, from}
       THEN Answers(from, Failed) /\ UNCHANGED holder
       ELSE IF ~Alive(from) /\ holder = Nobody
       THEN UNCHANGED <<reply, holder>>
       ELSE Answers(from, Granted(buffer)) /\ holder' = from

\* method_release_lease.
ReleaseLease ==
  /\ Receives("release")
  /\ LET from == Head(inbox).from IN
       /\ Answers(from, IF holder = from THEN Granted(0) ELSE Failed)
       /\ holder' = IF holder = from THEN Nobody ELSE holder

\* Mutant of LosesHolder: it is only logged.
LosesHolderQuietly ==
  /\ Receives("gone")
  /\ UNCHANGED <<reply, holder>>

\* on_lease_track_drop, if the one that is gone is still being watched.
LosesHolder ==
  /\ Receives("gone")
  /\ holder' = IF holder = Head(inbox).from THEN Nobody ELSE holder
  /\ UNCHANGED reply

-----------------------------------------------------------------------------
(* Clients.  A handle (struct DRM_Mgr) has a connection of its own. *)

Goes(c, p) == place' = [place EXCEPT ![c] = p]

\* A tool goes straight for the framebuffer; so does ambience's main, once it
\* has set up its watch.
Starts(c) ==
  /\ place[c] = "down"
  /\ starts < MaxStarts
  /\ starts' = starts + 1
  /\ Goes(c, "ask")
  /\ UNCHANGED <<mgrVars, inbox, conn, mapped, reply, again, events, refused,
                 conns>>

\* drm_mgr_init, and the call of drm_mgr_acquire_fb.
Asks(c) ==
  /\ place[c] = "ask"
  /\ conns' = conns + 1
  /\ conn' = [conn EXCEPT ![c] = conns + 1]
  /\ Calls(c, "acquire", conns + 1)
  /\ again' = [again EXCEPT ![c] = FALSE]
  /\ refused' = [refused EXCEPT ![c] = FALSE]
  /\ Goes(c, "asked")
  /\ UNCHANGED <<mgrVars, mapped, events, starts>>

\* The reply's descriptor is duplicated and mapped.
Maps(c) ==
  /\ place[c] = "asked"
  /\ reply[c].t = "granted"
  /\ mapped' = [mapped EXCEPT ![c] = reply[c].buffer]
  /\ reply' = [reply EXCEPT ![c] = NoReply]
  /\ Goes(c, "idle")
  /\ UNCHANGED <<mgrVars, inbox, conn, again, events, refused, starts, conns>>

\* No lease, no mapping, or no reply in time: the handle is freed.
GetsNothing(c) ==
  /\ place[c] = "asked"
  /\ reply' = [reply EXCEPT ![c] = NoReply]
  /\ refused' = [refused EXCEPT ![c] = mgr_up]
  /\ Goes(c, "close")
  /\ UNCHANGED <<mgrVars, inbox, conn, mapped, again, events, starts, conns>>

\* drm_mgr_release_fb unmaps before it calls.
Frees(c) ==
  /\ place[c] = "free"
  /\ mapped' = [mapped EXCEPT ![c] = 0]
  /\ Calls(c, "release", conn[c])
  /\ Goes(c, "releasing")
  /\ UNCHANGED <<mgrVars, conn, again, events, refused, starts, conns>>

\* Whatever the call came to, or if it came to nothing in time.
Released(c) ==
  /\ place[c] = "releasing"
  /\ reply' = [reply EXCEPT ![c] = NoReply]
  /\ Goes(c, "close")
  /\ UNCHANGED <<mgrVars, inbox, conn, mapped, again, events, refused, starts,
                 conns>>

\* The end of drm_mgr_free, and what the client does next.
Closes(c) ==
  /\ place[c] = "close"
  /\ Disconnects(c)
  /\ Goes(c, IF again[c] THEN "ask" ELSE IF c \in Daemons THEN "idle" ELSE "down")
  /\ UNCHANGED <<mgrVars, mapped, reply, again, events, refused, starts, conns>>

\* A tool has shown its picture, ambience was told to stop.
Finishes(c) ==
  /\ c \notin Daemons
  /\ place[c] = "idle"
  /\ Goes(c, "free")
  /\ UNCHANGED <<mgrVars, inbox, conn, mapped, reply, again, events, refused,
                 starts, conns>>

\* on_drm_mgr_updown: up renews the handle or makes one, down frees it.
HandlesUpDown(c) ==
  /\ place[c] = "idle"
  /\ events[c] # <<>>
  /\ LET up == Head(events[c]) IN
       /\ again' = [again EXCEPT ![c] = up]
       /\ Goes(c, IF conn[c] # Nobody THEN "free" ELSE IF up THEN "ask" ELSE "idle")
  /\ events' = [events EXCEPT ![c] = Tail(@)]
  /\ UNCHANGED <<mgrVars, inbox, conn, mapped, reply, refused, starts, conns>>

\* A process ends, in whatever it was: the kernel unmaps its memory before it
\* closes its connections.
Dies(c) ==
  /\ place[c] # "down"
  /\ Disconnects(c)
  /\ mapped' = [mapped EXCEPT ![c] = 0]
  /\ reply' = [reply EXCEPT ![c] = NoReply]
  /\ again' = [again EXCEPT ![c] = FALSE]
  /\ events' = [events EXCEPT ![c] = <<>>]
  /\ refused' = [refused EXCEPT ![c] = FALSE]
  /\ Goes(c, "down")
  /\ UNCHANGED <<mgrVars, starts, conns>>

MgrStep == AcquireLease \/ ReleaseLease \/ LosesHolder

ClientStep(c) ==
  \/ Asks(c) \/ Maps(c)
  \/ GetsNothing(c) /\ reply[c] = Failed
  \/ Frees(c)
  \/ Released(c) /\ reply[c] # NoReply
  \/ Closes(c)
  \/ HandlesUpDown(c)

Next ==
  \/ MgrStarts \/ MgrEnds
  \/ MgrStep
  \/ \E c \in Clients :
       \/ ClientStep(c)
       \/ Starts(c)
       \/ GetsNothing(c)
       \/ Released(c)
       \/ Finishes(c)
       \/ Dies(c)

Spec == Init /\ [][Next]_vars

\* Every process is scheduled.  Calls need not time out, mappings not fail, and
\* nothing needs to start, finish or die.
FairSpec ==
  /\ Spec
  /\ WF_vars(MgrStep)
  /\ \A c \in Clients : WF_vars(ClientStep(c))

-----------------------------------------------------------------------------
(* Properties. *)

\* Every variable keeps its type.
TypeOK ==
  /\ mgr_up \in BOOLEAN /\ buffer \in 0 .. MaxBuffers
  /\ holder \in 0 .. conns
  /\ inbox \in Seq([t : {"acquire", "release", "gone"}, from : Nat])
  /\ place \in [Clients -> Places]
  /\ conn \in [Clients -> 0 .. conns]
  /\ mapped \in [Clients -> 0 .. MaxBuffers]
  /\ reply \in [Clients -> [t : {"none", "failed", "granted"},
                            buffer : 0 .. MaxBuffers]]
  /\ again \in [Clients -> BOOLEAN] /\ refused \in [Clients -> BOOLEAN]
  /\ events \in [Clients -> Seq(BOOLEAN)]
  /\ starts \in 0 .. MaxStarts /\ conns \in Nat

\* No two processes have the same framebuffer mapped (display-mgr/README.md:
\* "grants exclusive framebuffer access to a single client").
ExclusiveFb ==
  \A c, d \in Clients : mapped[c] # 0 /\ mapped[c] = mapped[d] => c = d

\* While display-mgr runs, whoever has its framebuffer mapped holds the lease:
\* no order of calls, deaths and late answers takes it away behind their back.
MappedIsLeased ==
  mgr_up => \A c \in Clients : mapped[c] = buffer => holder = conn[c]

\* The lease is never held by a connection that closed without display-mgr
\* being about to hear of it.
HolderWatched ==
  holder # Nobody => Alive(holder) \/ In(Message("gone", holder), inbox)

\* The lease, the mappings and the watch agree, whatever was asked, answered late
\* or cut short: one process at a time has a framebuffer, by the lease that
\* display-mgr has on record, of a connection it will hear the end of.
LeaseInv ==
  /\ TypeOK
  /\ ExclusiveFb
  /\ MappedIsLeased
  /\ HolderWatched

\* ambience, when it has handled what it was told, has the framebuffer of the
\* display-mgr that runs, unless it asked that one and got nothing.
FollowsDisplayMgr ==
  mgr_up => \A c \in Daemons :
    place[c] = "idle" /\ events[c] = <<>> => mapped[c] = buffer \/ refused[c]

\* A lease whose holder is gone ends, with or without a release.
Orphaned == holder # Nobody /\ ~Alive(holder)
LeaseEnds == Orphaned ~> ~Orphaned
=============================================================================
