-------------------------- MODULE DisplayLeaseProofs --------------------------
(***************************************************************************)
(* Proofs that the framebuffer lease and its clients agree (DisplayLease),  *)
(* for any clients, any number of starts of them and of display-mgr.        *)
(***************************************************************************)
EXTENDS DisplayLease, SequenceTheorems, TLAPS

-----------------------------------------------------------------------------
(* The inductive invariant. *)

Nat1 == Nat \ {0}

\* Client c has framebuffer b mapped, or was granted it and has yet to map it.
Has(c, b) ==
  \/ mapped[c] = b
  \/ place[c] = "asked" /\ reply[c] = Granted(b)

\* A display-mgr that is not there holds and hears nothing.
MgrOK ==
  /\ mgr_up => buffer # 0
  /\ ~mgr_up => holder = Nobody /\ inbox = <<>>

\* Connections are not shared; what a client has depends on where it is.
PlacesOK ==
  /\ \A c, d \in Clients : conn[c] = conn[d] /\ conn[c] # Nobody => c = d
  /\ \A c \in Clients :
       /\ place[c] \in {"down", "ask"} => conn[c] = Nobody
       /\ place[c] \in {"asked", "free", "releasing", "close"} => conn[c] # Nobody
       /\ mapped[c] # 0 => place[c] \in {"idle", "free"} /\ conn[c] # Nobody
       /\ ~InCall(c) => reply[c] = NoReply
       /\ c \notin Daemons =>
            /\ events[c] = <<>>
            /\ place[c] = "idle" => conn[c] # Nobody

\* What is under way to display-mgr is of connections that were made; news of a
\* closed one comes after it is closed, and a client that sent a release does
\* nothing more with its connection than close it.
InboxOK ==
  \A x \in Nat :
    /\ \A t \in {"acquire", "release", "gone"} :
         In(Message(t, x), inbox) => x \in 1 .. conns
    /\ In(Message("gone", x), inbox) => ~Alive(x)
    /\ In(Message("release", x), inbox) =>
         \A c \in Clients : conn[c] = x => place[c] \in {"releasing", "close"}

\* A framebuffer is with one client, which holds the lease if that framebuffer is
\* of the display-mgr that runs.
GrantsOK ==
  \A b \in Nat1, c \in Clients : Has(c, b) =>
    /\ b <= buffer
    /\ mgr_up /\ b = buffer => holder = conn[c]
    /\ \A d \in Clients : Has(d, b) => c = d

LeaseOK ==
  /\ TypeOK
  /\ MgrOK
  /\ PlacesOK
  /\ InboxOK
  /\ GrantsOK
  /\ HolderWatched

\* ambience, unless it is down, knows of the display-mgr that runs from an event
\* it has yet to handle, is about to ask it for the framebuffer, has it, or asked
\* for it and got nothing.
DaemonOK(c) ==
  /\ place[c] = "down" => events[c] = <<>>
  /\ mgr_up /\ events[c] # <<>> => events[c][Len(events[c])]
  /\ mgr_up /\ events[c] = <<>> =>
       /\ place[c] = "asked" /\ reply[c].t = "granted" =>
            reply[c].buffer = buffer
       /\ place[c] = "idle" => mapped[c] = buffer \/ refused[c]
       /\ place[c] \in {"free", "releasing"} => again[c]
       /\ place[c] = "close" => again[c] \/ refused[c]

DaemonsOK == \A c \in Daemons : DaemonOK(c)

-----------------------------------------------------------------------------
(* Facts about the inbox. *)

Mail == [t : {"acquire", "release", "gone"}, from : Nat]

\* A message sent is in the inbox, after the others.
LEMMA InAppend ==
  ASSUME NEW s \in Seq(Mail), NEW e \in Mail, NEW m
  PROVE  In(m, Append(s, e)) <=> In(m, s) \/ m = e
<1>1. /\ Append(s, e) \in Seq(Mail) /\ Len(Append(s, e)) = Len(s) + 1
      /\ \A i \in 1 .. Len(s) : Append(s, e)[i] = s[i]
      /\ Append(s, e)[Len(s) + 1] = e
  BY AppendProperties
<1>2. /\ Len(s) \in Nat /\ DOMAIN s = 1 .. Len(s)
      /\ DOMAIN Append(s, e) = 1 .. Len(s) + 1
  BY <1>1, LenProperties
<1>3. 1 .. Len(s) + 1 = 1 .. Len(s) \cup {Len(s) + 1}
  BY <1>2
<1>4. QED
  BY <1>1, <1>2, <1>3 DEF In

\* Receiving one message takes it out and leaves the others.
LEMMA InTail ==
  ASSUME NEW s \in Seq(Mail), s # <<>>, NEW m
  PROVE  /\ Head(s) \in Mail /\ Tail(s) \in Seq(Mail)
         /\ In(Head(s), s)
         /\ In(m, Tail(s)) => In(m, s)
         /\ In(m, s) /\ m # Head(s) => In(m, Tail(s))
<1>1. /\ Head(s) \in Mail /\ Tail(s) \in Seq(Mail)
      /\ Len(Tail(s)) = Len(s) - 1
      /\ \A i \in 1 .. Len(Tail(s)) : Tail(s)[i] = s[i + 1]
  BY HeadTailProperties
<1>2. /\ Len(s) \in Nat /\ Len(s) # 0
      /\ DOMAIN s = 1 .. Len(s) /\ DOMAIN Tail(s) = 1 .. Len(s) - 1
  BY <1>1, LenProperties, EmptySeq
<1>3. Head(s) = s[1]
  OBVIOUS
<1>4. In(Head(s), s)
  BY <1>2, <1>3 DEF In
<1>5. In(m, Tail(s)) => In(m, s)
  <2>1. \A i \in 1 .. Len(s) - 1 : i + 1 \in 1 .. Len(s)
    BY <1>2
  <2>2. QED
    BY <1>1, <1>2, <2>1 DEF In
<1>6. In(m, s) /\ m # Head(s) => In(m, Tail(s))
  <2>1. SUFFICES ASSUME NEW i \in 1 .. Len(s), s[i] = m, m # Head(s)
                 PROVE  In(m, Tail(s))
    BY <1>2 DEF In
  <2>2. i - 1 \in 1 .. Len(s) - 1 /\ (i - 1) + 1 = i
    BY <1>2, <1>3, <2>1
  <2>3. Tail(s)[i - 1] = m
    BY <1>1, <2>1, <2>2
  <2>4. QED
    BY <1>2, <2>2, <2>3 DEF In
<1>7. QED
  BY <1>1, <1>4, <1>5, <1>6

\* Nothing is in an empty inbox.
LEMMA InEmpty == \A m : ~In(m, <<>>)
  BY DEF In

\* Messages are told apart by their kind and sender.
LEMMA MessageFacts ==
  \A t, x : /\ Message(t, x).t = t /\ Message(t, x).from = x
            /\ \A u, y : Message(t, x) = Message(u, y) => t = u /\ x = y
  BY DEF Message

\* What display-mgr receives is of the connection that sent it.
LEMMA HeadMessage ==
  ASSUME NEW s \in Seq(Mail), s # <<>>
  PROVE  /\ Head(s) = Message(Head(s).t, Head(s).from)
         /\ Head(s).from \in Nat /\ Head(s).t \in {"acquire", "release", "gone"}
<1>1. Head(s) \in Mail
  BY InTail
<1>2. QED
  BY <1>1 DEF Mail, Message

-----------------------------------------------------------------------------
(* Types. *)

\* Telling the clients of display-mgr adds to what they have yet to handle.
LEMMA TellsTypes ==
  ASSUME TypeOK, NEW up \in BOOLEAN, Tells(up)
  PROVE  events' \in [Clients -> Seq(BOOLEAN)]
<1>1. \A c \in Clients : Append(events[c], up) \in Seq(BOOLEAN)
  BY AppendProperties DEF TypeOK
<1>2. QED
  BY <1>1 DEF Tells, TypeOK

\* What goes to display-mgr is mail.
LEMMA SentTypes ==
  ASSUME TypeOK, NEW t \in {"acquire", "release", "gone"}, NEW x \in Nat
  PROVE  Append(inbox, Message(t, x)) \in Seq(Mail) /\ Message(t, x) \in Mail
<1>1. Message(t, x) \in Mail /\ inbox \in Seq(Mail)
  BY DEF Message, Mail, TypeOK
<1>2. QED
  BY <1>1, AppendProperties

\* Every step keeps the types.
LEMMA NextTypes == TypeOK /\ InboxOK /\ [Next]_vars => TypeOK'
<1> SUFFICES ASSUME TypeOK, InboxOK, [Next]_vars PROVE TypeOK'
  OBVIOUS
<1> USE LeaseAssumption
<1>0. inbox \in Seq(Mail) /\ (inbox' \in Seq(Mail) =>
        inbox' \in Seq([t : {"acquire", "release", "gone"}, from : Nat]))
  BY DEF TypeOK, Mail
<1>1. CASE MgrStarts
  <2>1. events' \in [Clients -> Seq(BOOLEAN)]
    BY <1>1, TellsTypes DEF MgrStarts
  <2>2. buffer' \in 0 .. MaxBuffers
    BY <1>1 DEF MgrStarts, TypeOK
  <2>3. \A b \in 0 .. MaxBuffers : b \in 0 .. MaxBuffers
    OBVIOUS
  <2>4. QED
    BY <1>1, <2>1, <2>2 DEF MgrStarts, TypeOK
<1>2. CASE MgrEnds
  <2>1. events' \in [Clients -> Seq(BOOLEAN)]
    BY <1>2, TellsTypes DEF MgrEnds
  <2>2. inbox' \in Seq(Mail)
    BY <1>2, EmptySeq DEF MgrEnds
  <2>3. Failed \in [t : {"none", "failed", "granted"}, buffer : 0 .. MaxBuffers]
    BY DEF Failed
  <2>4. reply' \in [Clients -> [t : {"none", "failed", "granted"},
                                buffer : 0 .. MaxBuffers]]
    BY <1>2, <2>3 DEF MgrEnds, TypeOK
  <2>5. holder' \in 0 .. conns'
    BY <1>2 DEF MgrEnds, TypeOK, Nobody
  <2>6. QED
    BY <1>0, <1>2, <2>1, <2>2, <2>4, <2>5 DEF MgrEnds, TypeOK
<1>3. CASE MgrStep
  <2>1. PICK t \in {"acquire", "release", "gone"} : Receives(t)
    BY <1>3 DEF MgrStep, AcquireLease, ReleaseLease, LosesHolder
  <2> DEFINE from == Head(inbox).from
  <2>2. inbox' \in Seq(Mail) /\ Head(inbox) = Message(t, from)
    BY <1>0, <2>1, InTail, HeadMessage DEF Receives
  <2>3. In(Message(t, from), inbox) /\ from \in Nat
    BY <1>0, <2>1, <2>2, InTail, HeadMessage DEF Receives
  <2>4. from \in 0 .. conns
    BY <2>3 DEF InboxOK, TypeOK
  <2>5. holder' \in {holder, Nobody, from}
    BY <1>3 DEF MgrStep, AcquireLease, ReleaseLease, LosesHolder
  <2>6. \/ reply' = reply
        \/ \E r \in {Failed, Granted(buffer), Granted(0)} : Answers(from, r)
    BY <1>3 DEF MgrStep, AcquireLease, ReleaseLease, LosesHolder
  <2>7. {Failed, Granted(buffer), Granted(0)} \subseteq
          [t : {"none", "failed", "granted"}, buffer : 0 .. MaxBuffers]
    BY DEF Failed, Granted, TypeOK
  <2>8. reply' \in [Clients -> [t : {"none", "failed", "granted"},
                                buffer : 0 .. MaxBuffers]]
    <3>1. CASE reply' = reply
      BY <3>1 DEF TypeOK
    <3>2. ASSUME NEW r \in {Failed, Granted(buffer), Granted(0)}, Answers(from, r)
          PROVE  reply' \in [Clients -> [t : {"none", "failed", "granted"},
                                         buffer : 0 .. MaxBuffers]]
      <4>1. r \in [t : {"none", "failed", "granted"}, buffer : 0 .. MaxBuffers]
        BY <2>7
      <4>2. reply \in [Clients -> [t : {"none", "failed", "granted"},
                                   buffer : 0 .. MaxBuffers]]
        BY DEF TypeOK
      <4>3. QED
        BY <3>2, <4>1, <4>2 DEF Answers
    <3>3. QED
      BY <2>6, <3>1, <3>2
  <2>9. holder' \in 0 .. conns
    BY <2>4, <2>5 DEF TypeOK, Nobody
  <2>10. QED
    BY <1>0, <2>1, <2>2, <2>8, <2>9 DEF Receives, TypeOK
<1>4. ASSUME NEW c \in Clients, Asks(c) PROVE TypeOK'
  <2>1. conns + 1 \in Nat
    BY DEF TypeOK
  <2>2. inbox' \in Seq(Mail)
    BY <1>0, <1>4, <2>1, SentTypes DEF Asks, Calls
  <2>3. Failed \in [t : {"none", "failed", "granted"}, buffer : 0 .. MaxBuffers]
    BY DEF Failed
  <2>4. reply' \in [Clients -> [t : {"none", "failed", "granted"},
                                buffer : 0 .. MaxBuffers]]
    BY <1>4, <2>3 DEF Asks, Calls, TypeOK
  <2>5. conn' \in [Clients -> 0 .. conns'] /\ holder' \in 0 .. conns'
    <3>1. \A n \in Nat : 0 .. n \subseteq 0 .. n + 1 /\ n + 1 \in 0 .. n + 1
      OBVIOUS
    <3>2. QED
      BY <1>4, <3>1 DEF Asks, mgrVars, TypeOK
  <2>6. QED
    BY <1>0, <1>4, <2>1, <2>2, <2>4, <2>5
    DEF Asks, Goes, mgrVars, TypeOK, Places
<1>5. ASSUME NEW c \in Clients,
             Maps(c) \/ GetsNothing(c) \/ Released(c) \/ Starts(c) \/ Finishes(c)
      PROVE  TypeOK'
  <2>1. NoReply \in [t : {"none", "failed", "granted"}, buffer : 0 .. MaxBuffers]
    BY DEF NoReply
  <2>2. reply' \in [Clients -> [t : {"none", "failed", "granted"},
                                buffer : 0 .. MaxBuffers]]
    BY <1>5, <2>1 DEF Maps, GetsNothing, Released, Starts, Finishes, TypeOK
  <2>3. mapped' \in [Clients -> 0 .. MaxBuffers]
    BY <1>5 DEF Maps, GetsNothing, Released, Starts, Finishes, TypeOK
  <2>4. /\ place' \in [Clients -> Places]
        /\ refused' \in [Clients -> BOOLEAN]
        /\ starts' \in 0 .. MaxStarts
    <3>1. place' \in [Clients -> Places]
      BY <1>5
      DEF Maps, GetsNothing, Released, Starts, Finishes, Goes, TypeOK, Places
    <3>2. refused' = refused \/ refused' = [refused EXCEPT ![c] = mgr_up]
      BY <1>5 DEF Maps, GetsNothing, Released, Starts, Finishes
    <3>3. refused' \in [Clients -> BOOLEAN]
      BY <3>2 DEF TypeOK
    <3>4. starts' = starts \/ (starts < MaxStarts /\ starts' = starts + 1)
      BY <1>5 DEF Maps, GetsNothing, Released, Starts, Finishes
    <3>5. starts' \in 0 .. MaxStarts
      BY <3>4 DEF TypeOK
    <3>6. QED
      BY <3>1, <3>3, <3>5
  <2>5. UNCHANGED <<mgr_up, buffer, holder, inbox, conn, again, events, conns>>
    BY <1>5 DEF Maps, GetsNothing, Released, Starts, Finishes, mgrVars
  <2>6. QED
    BY <2>2, <2>3, <2>4, <2>5 DEF TypeOK
<1>6. ASSUME NEW c \in Clients, Frees(c) PROVE TypeOK'
  <2>1. conn[c] \in Nat
    BY DEF TypeOK
  <2>2. inbox' \in Seq(Mail)
    BY <1>0, <1>6, <2>1, SentTypes DEF Frees, Calls
  <2>3. Failed \in [t : {"none", "failed", "granted"}, buffer : 0 .. MaxBuffers]
    BY DEF Failed
  <2>4. reply' \in [Clients -> [t : {"none", "failed", "granted"},
                                buffer : 0 .. MaxBuffers]]
    BY <1>6, <2>3 DEF Frees, Calls, TypeOK
  <2>5. mapped' \in [Clients -> 0 .. MaxBuffers] /\ place' \in [Clients -> Places]
    BY <1>6 DEF Frees, Goes, TypeOK, Places
  <2>6. QED
    BY <1>0, <1>6, <2>2, <2>4, <2>5 DEF Frees, mgrVars, TypeOK
<1>7. ASSUME NEW c \in Clients, Disconnects(c)
      PROVE  inbox' \in Seq(Mail) /\ conn' \in [Clients -> 0 .. conns]
  <2>1. conn[c] \in Nat
    BY DEF TypeOK
  <2>2. inbox' \in Seq(Mail)
    BY <1>0, <1>7, <2>1, SentTypes DEF Disconnects
  <2>3. QED
    BY <1>7, <2>2 DEF Disconnects, TypeOK, Nobody
<1>8. ASSUME NEW c \in Clients, Closes(c) PROVE TypeOK'
  <2>1. inbox' \in Seq(Mail) /\ conn' \in [Clients -> 0 .. conns]
    BY <1>7, <1>8 DEF Closes
  <2>2. QED
    BY <1>0, <1>8, <2>1 DEF Closes, Goes, mgrVars, TypeOK, Places
<1>9. ASSUME NEW c \in Clients, HandlesUpDown(c) PROVE TypeOK'
  <2>1. events[c] \in Seq(BOOLEAN) /\ events[c] # <<>>
    BY <1>9 DEF HandlesUpDown, TypeOK
  <2>2. Head(events[c]) \in BOOLEAN /\ Tail(events[c]) \in Seq(BOOLEAN)
    BY <2>1, HeadTailProperties
  <2>3. events' \in [Clients -> Seq(BOOLEAN)] /\ again' \in [Clients -> BOOLEAN]
    BY <1>9, <2>2 DEF HandlesUpDown, TypeOK
  <2>4. place' \in [Clients -> Places]
    BY <1>9 DEF HandlesUpDown, Goes, TypeOK, Places
  <2>5. QED
    BY <1>9, <2>3, <2>4 DEF HandlesUpDown, mgrVars, TypeOK
<1>10. ASSUME NEW c \in Clients, Dies(c) PROVE TypeOK'
  <2>1. inbox' \in Seq(Mail) /\ conn' \in [Clients -> 0 .. conns]
    BY <1>7, <1>10 DEF Dies
  <2>2. NoReply \in [t : {"none", "failed", "granted"}, buffer : 0 .. MaxBuffers]
        /\ <<>> \in Seq(BOOLEAN)
    BY EmptySeq DEF NoReply
  <2>3. /\ mapped' \in [Clients -> 0 .. MaxBuffers]
        /\ reply' \in [Clients -> [t : {"none", "failed", "granted"},
                                   buffer : 0 .. MaxBuffers]]
        /\ events' \in [Clients -> Seq(BOOLEAN)]
        /\ again' \in [Clients -> BOOLEAN] /\ refused' \in [Clients -> BOOLEAN]
        /\ place' \in [Clients -> Places]
    BY <1>10, <2>2 DEF Dies, Goes, TypeOK, Places
  <2>4. QED
    BY <1>0, <1>10, <2>1, <2>3 DEF Dies, mgrVars, TypeOK
<1>11. CASE UNCHANGED vars
  BY <1>11 DEF vars, mgrVars, clientVars, TypeOK
<1>12. QED
  BY <1>1, <1>2, <1>3, <1>4, <1>5, <1>6, <1>8, <1>9, <1>10, <1>11
  DEF Next, ClientStep

-----------------------------------------------------------------------------
(* display-mgr's side, and what a client has where. *)

\* A display-mgr that is gone keeps nothing.
LEMMA NextMgr == TypeOK /\ MgrOK /\ [Next]_vars => MgrOK'
<1> SUFFICES ASSUME TypeOK, MgrOK, [Next]_vars PROVE MgrOK'
  OBVIOUS
<1> USE DEF MgrOK
<1>1. CASE MgrStarts
  BY <1>1 DEF MgrStarts, TypeOK
<1>2. CASE MgrEnds
  BY <1>2 DEF MgrEnds
<1>3. CASE MgrStep
  BY <1>3 DEF MgrStep, AcquireLease, ReleaseLease, LosesHolder, Receives
<1>4. ASSUME NEW c \in Clients, Asks(c) \/ Frees(c) PROVE MgrOK'
  BY <1>4 DEF Asks, Frees, Calls, mgrVars
<1>5. ASSUME NEW c \in Clients, Closes(c) \/ Dies(c) PROVE MgrOK'
  BY <1>5 DEF Closes, Dies, Disconnects, mgrVars
<1>6. ASSUME NEW c \in Clients,
             \/ Maps(c) \/ GetsNothing(c) \/ Released(c) \/ Starts(c) \/ Finishes(c)
             \/ HandlesUpDown(c)
      PROVE  MgrOK'
  <2>1. UNCHANGED <<mgrVars, inbox>>
    BY <1>6 DEF Maps, GetsNothing, Released, Starts, Finishes, HandlesUpDown
  <2>2. QED
    BY <2>1 DEF mgrVars
<1>7. CASE UNCHANGED vars
  BY <1>7 DEF vars, mgrVars
<1>8. QED
  BY <1>1, <1>2, <1>3, <1>4, <1>5, <1>6, <1>7 DEF Next, ClientStep

\* Only the clients move, one place at a time, and a new connection is one that
\* nobody had.
LEMMA NextPlaces == TypeOK /\ PlacesOK /\ [Next]_vars => PlacesOK'
<1> SUFFICES ASSUME TypeOK, PlacesOK, [Next]_vars PROVE PlacesOK'
  OBVIOUS
<1> USE DEF PlacesOK, InCall, Nobody
<1>0. /\ place \in [Clients -> Places] /\ conn \in [Clients -> 0 .. conns]
      /\ mapped \in [Clients -> 0 .. MaxBuffers]
      /\ reply \in [Clients -> [t : {"none", "failed", "granted"},
                                buffer : 0 .. MaxBuffers]]
      /\ conns \in Nat
  BY DEF TypeOK
<1>1. CASE MgrStarts
  <2>1. Tells(TRUE) /\ UNCHANGED <<place, conn, mapped, reply>>
    BY <1>1 DEF MgrStarts
  <2>2. \A c \in Clients : c \notin Daemons => events'[c] = events[c]
    BY <2>1 DEF Tells, Listens
  <2>3. QED
    BY <2>1, <2>2
<1>2. CASE MgrEnds
  <2>1. Tells(FALSE) /\ UNCHANGED <<place, conn, mapped>>
    BY <1>2 DEF MgrEnds
  <2>2. \A c \in Clients : c \notin Daemons => events'[c] = events[c]
    BY <2>1 DEF Tells, Listens
  <2>3. \A c \in Clients : ~InCall(c) => reply'[c] = reply[c]
    BY <1>2 DEF MgrEnds
  <2>4. QED
    BY <2>1, <2>2, <2>3
<1>3. CASE MgrStep
  <2>1. /\ UNCHANGED <<place, conn, mapped, events>>
        /\ \/ reply' = reply
           \/ \E from, r : Answers(from, r)
    BY <1>3 DEF MgrStep, AcquireLease, ReleaseLease, LosesHolder, Receives
  <2>2. QED
    BY <1>0, <2>1 DEF Answers
<1>4. ASSUME NEW c \in Clients, Starts(c) PROVE PlacesOK'
  BY <1>0, <1>4 DEF Starts, Goes, Places
<1>5. ASSUME NEW c \in Clients, Asks(c) PROVE PlacesOK'
  <2>1. \A d \in Clients : conn[d] # conns + 1 /\ conns + 1 # 0
    BY <1>0
  <2>2. /\ place[c] = "ask" /\ place' = [place EXCEPT ![c] = "asked"]
        /\ conn' = [conn EXCEPT ![c] = conns + 1]
        /\ mapped' = mapped /\ events' = events
        /\ reply' = reply \/ reply' = [reply EXCEPT ![c] = Failed]
    BY <1>5 DEF Asks, Calls, Goes
  <2>3. QED
    BY <1>0, <2>1, <2>2
<1>6. ASSUME NEW c \in Clients, Maps(c) PROVE PlacesOK'
  BY <1>0, <1>6 DEF Maps, Goes
<1>7. ASSUME NEW c \in Clients, GetsNothing(c) \/ Released(c) PROVE PlacesOK'
  BY <1>0, <1>7 DEF GetsNothing, Released, Goes
<1>8. ASSUME NEW c \in Clients, Frees(c) PROVE PlacesOK'
  <2>1. /\ place[c] = "free" /\ place' = [place EXCEPT ![c] = "releasing"]
        /\ conn' = conn /\ events' = events
        /\ mapped' = [mapped EXCEPT ![c] = 0]
        /\ reply' = reply \/ reply' = [reply EXCEPT ![c] = Failed]
    BY <1>8 DEF Frees, Calls, Goes
  <2>2. QED
    BY <1>0, <2>1
<1>9. ASSUME NEW c \in Clients, Closes(c) PROVE PlacesOK'
  <2>1. /\ place[c] = "close" /\ conn' = [conn EXCEPT ![c] = 0]
        /\ UNCHANGED <<mapped, reply, events>>
        /\ \E p \in {"ask", "idle", "down"} :
             /\ place' = [place EXCEPT ![c] = p]
             /\ p = "idle" => c \in Daemons
    BY <1>9 DEF Closes, Disconnects, Goes
  <2>2. QED
    BY <1>0, <2>1
<1>10. ASSUME NEW c \in Clients, Finishes(c) PROVE PlacesOK'
  BY <1>0, <1>10 DEF Finishes, Goes
<1>11. ASSUME NEW c \in Clients, HandlesUpDown(c) PROVE PlacesOK'
  <2>1. /\ place[c] = "idle" /\ UNCHANGED <<conn, mapped, reply>>
        /\ \E p \in {"free", "ask", "idle"} :
             /\ place' = [place EXCEPT ![c] = p]
             /\ p = "free" <=> conn[c] # 0
        /\ events' = [events EXCEPT ![c] = Tail(@)]
        /\ events[c] # <<>>
    BY <1>11 DEF HandlesUpDown, Goes
  <2>2. c \in Daemons
    BY <2>1
  <2>3. \A d \in Clients : d \notin Daemons => events'[d] = events[d]
    BY <2>1, <2>2 DEF TypeOK
  <2>4. QED
    BY <1>0, <2>1, <2>2, <2>3
<1>12. ASSUME NEW c \in Clients, Dies(c) PROVE PlacesOK'
  <2>1. /\ place' = [place EXCEPT ![c] = "down"] /\ conn' = [conn EXCEPT ![c] = 0]
        /\ mapped' = [mapped EXCEPT ![c] = 0]
        /\ reply' = [reply EXCEPT ![c] = NoReply]
        /\ events' = [events EXCEPT ![c] = <<>>]
    BY <1>12 DEF Dies, Disconnects, Goes
  <2>2. \A d \in Clients : d \notin Daemons => events'[d] = <<>>
    BY <2>1 DEF TypeOK
  <2>3. QED
    BY <1>0, <2>1, <2>2
<1>13. CASE UNCHANGED vars
  BY <1>13 DEF vars, clientVars
<1>14. QED
  BY <1>1, <1>2, <1>3, <1>4, <1>5, <1>6, <1>7, <1>8, <1>9, <1>10, <1>11, <1>12, <1>13
  DEF Next, ClientStep

-----------------------------------------------------------------------------
(* What is under way to display-mgr. *)

\* A client that only moves, or handles what it was told, sends nothing and keeps
\* its connection.
LEMMA QuietSteps ==
  ASSUME TypeOK, NEW c \in Clients,
         \/ Starts(c) \/ Maps(c) \/ GetsNothing(c) \/ Released(c) \/ Finishes(c)
         \/ HandlesUpDown(c)
  PROVE  /\ UNCHANGED <<mgr_up, buffer, holder, inbox, conn, conns>>
         /\ \A d \in Clients : d # c => place'[d] = place[d]
         /\ place[c] = "releasing" <=> Released(c)
         /\ Released(c) => place'[c] = "close"
         /\ place[c] # "close"
<1>1. UNCHANGED <<mgr_up, buffer, holder, inbox, conn, conns>>
  BY DEF Starts, Maps, GetsNothing, Released, Finishes, HandlesUpDown, mgrVars
<1>2. \E p \in Places : place' = [place EXCEPT ![c] = p]
  BY DEF Starts, Maps, GetsNothing, Released, Finishes, HandlesUpDown, Goes, Places
<1>3. \A d \in Clients : d # c => place'[d] = place[d]
  BY <1>2 DEF TypeOK
<1>4. /\ place[c] = "releasing" <=> Released(c)
      /\ Released(c) => place'[c] = "close"
      /\ place[c] # "close"
  BY DEF Starts, Maps, GetsNothing, Released, Finishes, HandlesUpDown, Goes, TypeOK
<1>5. QED
  BY <1>1, <1>3, <1>4

\* A process that closes its connection, by itself or by ending.
LEMMA ClosingSteps ==
  ASSUME TypeOK, NEW c \in Clients, Closes(c) \/ Dies(c)
  PROVE  /\ UNCHANGED <<mgr_up, buffer, holder, conns>>
         /\ Disconnects(c)
         /\ conn'[c] = Nobody /\ place'[c] \notin {"asked", "releasing", "close"}
         /\ \A d \in Clients : d # c => /\ conn'[d] = conn[d]
                                        /\ place'[d] = place[d]
<1>1. UNCHANGED <<mgr_up, buffer, holder, conns>> /\ Disconnects(c)
  BY DEF Closes, Dies, mgrVars
<1>2. \E p \in {"ask", "idle", "down"} : place' = [place EXCEPT ![c] = p]
  BY DEF Closes, Dies, Goes
<1>3. QED
  BY <1>1, <1>2 DEF Disconnects, TypeOK

\* A client that asks has a connection nobody had.
LEMMA AskingSteps ==
  ASSUME TypeOK, PlacesOK, NEW c \in Clients, Asks(c)
  PROVE  /\ UNCHANGED <<mgr_up, buffer, holder, mapped>>
         /\ conns' = conns + 1 /\ conn'[c] = conns + 1 /\ conn[c] = Nobody
         /\ place[c] = "ask" /\ place'[c] = "asked" /\ mapped[c] = 0
         /\ reply'[c] \in {NoReply, Failed}
         /\ inbox' \in {inbox, Append(inbox, Message("acquire", conns + 1))}
         /\ \A d \in Clients : d # c =>
              /\ conn'[d] = conn[d] /\ place'[d] = place[d] /\ reply'[d] = reply[d]
<1>1. /\ UNCHANGED <<mgr_up, buffer, holder, mapped>>
      /\ conns' = conns + 1 /\ place[c] = "ask"
      /\ conn' = [conn EXCEPT ![c] = conns + 1]
      /\ place' = [place EXCEPT ![c] = "asked"]
      /\ inbox' \in {inbox, Append(inbox, Message("acquire", conns + 1))}
      /\ reply' = reply \/ reply' = [reply EXCEPT ![c] = Failed]
  BY DEF Asks, Calls, Goes, mgrVars
<1>2. conn[c] = Nobody /\ mapped[c] = 0 /\ reply[c] = NoReply
  BY <1>1 DEF PlacesOK, InCall
<1>3. QED
  BY <1>1, <1>2 DEF TypeOK

\* Every step keeps what is known of the mail.
LEMMA NextInbox == TypeOK /\ PlacesOK /\ InboxOK /\ [Next]_vars => InboxOK'
<1> SUFFICES ASSUME TypeOK, PlacesOK, InboxOK, [Next]_vars,
                    NEW x \in Nat
             PROVE  (/\ \A t \in {"acquire", "release", "gone"} :
                          In(Message(t, x), inbox) => x \in 1 .. conns
                     /\ In(Message("gone", x), inbox) => ~Alive(x)
                     /\ In(Message("release", x), inbox) =>
                          \A c \in Clients :
                            conn[c] = x => place[c] \in {"releasing", "close"})'
  BY DEF InboxOK
<1>0. /\ inbox \in Seq(Mail) /\ conns \in Nat
      /\ place \in [Clients -> Places] /\ conn \in [Clients -> 0 .. conns]
      /\ \A c \in Clients : conn[c] \in Nat /\ conn[c] <= conns
  BY DEF TypeOK, Mail
<1>1. /\ \A t \in {"acquire", "release", "gone"} :
           In(Message(t, x), inbox) => x \in 1 .. conns
      /\ In(Message("gone", x), inbox) => ~Alive(x)
      /\ In(Message("release", x), inbox) =>
           \A c \in Clients :
             conn[c] = x => place[c] \in {"releasing", "close"}
  BY DEF InboxOK
<1>2. CASE MgrStarts \/ UNCHANGED vars
  BY <1>1, <1>2 DEF MgrStarts, vars, clientVars, Alive
<1>3. CASE MgrEnds
  BY <1>3, InEmpty DEF MgrEnds
<1>4. CASE MgrStep
  <2>1. /\ inbox # <<>> /\ inbox' = Tail(inbox)
        /\ UNCHANGED <<place, conn, conns>>
    BY <1>4 DEF MgrStep, AcquireLease, ReleaseLease, LosesHolder, Receives
  <2>2. \A t : In(Message(t, x), inbox') => In(Message(t, x), inbox)
    BY <1>0, <2>1, InTail
  <2>3. QED
    BY <1>1, <2>1, <2>2 DEF Alive
<1>5. ASSUME NEW c \in Clients, Asks(c)
      PROVE  (/\ \A t \in {"acquire", "release", "gone"} :
                   In(Message(t, x), inbox) => x \in 1 .. conns
              /\ In(Message("gone", x), inbox) => ~Alive(x)
              /\ In(Message("release", x), inbox) =>
                   \A d \in Clients :
                     conn[d] = x => place[d] \in {"releasing", "close"})'
  <2>1. /\ conns' = conns + 1 /\ conn'[c] = conns + 1 /\ conn[c] = Nobody
        /\ inbox' \in {inbox, Append(inbox, Message("acquire", conns + 1))}
        /\ \A d \in Clients : d # c => conn'[d] = conn[d] /\ place'[d] = place[d]
    BY <1>5, AskingSteps
  <2>2. conns + 1 \in Nat
    BY <1>0
  <2>3. \A m : In(m, inbox') => In(m, inbox) \/ m = Message("acquire", conns + 1)
    <3>1. Message("acquire", conns + 1) \in Mail
      BY <2>2, SentTypes
    <3>2. CASE inbox' = inbox
      BY <3>2
    <3>3. CASE inbox' = Append(inbox, Message("acquire", conns + 1))
      BY <1>0, <3>1, <3>3, InAppend
    <3>4. QED
      BY <2>1, <3>2, <3>3
  <2>4. /\ In(Message("acquire", x), inbox') =>
             In(Message("acquire", x), inbox) \/ x = conns + 1
        /\ In(Message("gone", x), inbox') => In(Message("gone", x), inbox)
        /\ In(Message("release", x), inbox') => In(Message("release", x), inbox)
    BY <2>3, MessageFacts
  <2>5. x \in 1 .. conns \/ x = conns + 1 => x \in 1 .. conns'
    BY <1>0, <2>1
  <2>6. x \in 1 .. conns => x # conns + 1 /\ x # Nobody
    BY <1>0 DEF Nobody
  <2>7. QED
    BY <1>1, <2>1, <2>4, <2>5, <2>6 DEF Alive
<1>6. ASSUME NEW c \in Clients, Frees(c)
      PROVE  (/\ \A t \in {"acquire", "release", "gone"} :
                   In(Message(t, x), inbox) => x \in 1 .. conns
              /\ In(Message("gone", x), inbox) => ~Alive(x)
              /\ In(Message("release", x), inbox) =>
                   \A d \in Clients :
                     conn[d] = x => place[d] \in {"releasing", "close"})'
  <2>1. /\ place[c] = "free" /\ place' = [place EXCEPT ![c] = "releasing"]
        /\ UNCHANGED <<conn, conns>>
        /\ inbox' \in {inbox, Append(inbox, Message("release", conn[c]))}
    BY <1>6 DEF Frees, Calls, Goes
  <2>2. conn[c] # Nobody /\ \A d \in Clients : conn[d] = conn[c] => d = c
    BY <2>1 DEF PlacesOK
  <2>3. \A m : In(m, inbox') => In(m, inbox) \/ m = Message("release", conn[c])
    BY <1>0, <2>1, InAppend, SentTypes
  <2>4. /\ In(Message("release", x), inbox') =>
             In(Message("release", x), inbox) \/ x = conn[c]
        /\ In(Message("gone", x), inbox') => In(Message("gone", x), inbox)
        /\ In(Message("acquire", x), inbox') => In(Message("acquire", x), inbox)
    BY <2>3, MessageFacts
  <2>5. conn[c] \in 1 .. conns
    BY <1>0, <2>2 DEF Nobody
  <2>6. place'[c] = "releasing" /\ \A d \in Clients : d # c => place'[d] = place[d]
    BY <1>0, <2>1
  <2>7. QED
    BY <1>1, <2>1, <2>2, <2>4, <2>5, <2>6 DEF Alive
<1>7. ASSUME NEW c \in Clients, Closes(c) \/ Dies(c)
      PROVE  (/\ \A t \in {"acquire", "release", "gone"} :
                   In(Message(t, x), inbox) => x \in 1 .. conns
              /\ In(Message("gone", x), inbox) => ~Alive(x)
              /\ In(Message("release", x), inbox) =>
                   \A d \in Clients :
                     conn[d] = x => place[d] \in {"releasing", "close"})'
  <2>1. /\ conns' = conns /\ conn'[c] = Nobody
        /\ \A d \in Clients : d # c => conn'[d] = conn[d] /\ place'[d] = place[d]
        /\ \/ inbox' = inbox
           \/ conn[c] # Nobody /\ inbox' = Append(inbox, Message("gone", conn[c]))
    BY <1>7, ClosingSteps DEF Disconnects
  <2>2. \A m : In(m, inbox') =>
          In(m, inbox) \/ (m = Message("gone", conn[c]) /\ conn[c] # Nobody)
    <3>1. Message("gone", conn[c]) \in Mail
      BY <1>0, SentTypes
    <3>2. CASE inbox' = inbox
      BY <3>2
    <3>3. CASE conn[c] # Nobody /\ inbox' = Append(inbox, Message("gone", conn[c]))
      BY <1>0, <3>1, <3>3, InAppend
    <3>4. QED
      BY <2>1, <3>2, <3>3
  <2>3. /\ In(Message("gone", x), inbox') =>
             In(Message("gone", x), inbox) \/ (x = conn[c] /\ conn[c] # Nobody)
        /\ In(Message("release", x), inbox') => In(Message("release", x), inbox)
        /\ In(Message("acquire", x), inbox') => In(Message("acquire", x), inbox)
    BY <2>2, MessageFacts
  <2>4. /\ x = conn[c] /\ conn[c] # Nobody => x \in 1 .. conns
        /\ x \in 1 .. conns => x # Nobody
    BY <1>0 DEF Nobody
  <2>5. x = conn[c] /\ conn[c] # Nobody => \A d \in Clients : d # c => conn[d] # x
    BY DEF PlacesOK
  <2>6. QED
    BY <1>1, <2>1, <2>3, <2>4, <2>5 DEF Alive
<1>8. ASSUME NEW c \in Clients,
             \/ Starts(c) \/ Maps(c) \/ GetsNothing(c) \/ Released(c) \/ Finishes(c)
             \/ HandlesUpDown(c)
      PROVE  (/\ \A t \in {"acquire", "release", "gone"} :
                   In(Message(t, x), inbox) => x \in 1 .. conns
              /\ In(Message("gone", x), inbox) => ~Alive(x)
              /\ In(Message("release", x), inbox) =>
                   \A d \in Clients :
                     conn[d] = x => place[d] \in {"releasing", "close"})'
  <2>1. /\ UNCHANGED <<inbox, conn, conns>>
        /\ \A d \in Clients : d # c => place'[d] = place[d]
        /\ place[c] = "releasing" => place'[c] = "close"
        /\ place[c] # "close"
    BY <1>8, QuietSteps
  <2>2. QED
    BY <1>1, <2>1 DEF Alive
<1>9. QED
  BY <1>2, <1>3, <1>4, <1>5, <1>6, <1>7, <1>8 DEF Next, ClientStep

-----------------------------------------------------------------------------
(* Who has a framebuffer. *)

\* Answers are told apart by what they say and by the framebuffer they bring.
LEMMA ReplyFacts ==
  \A b : /\ Granted(b) # NoReply /\ Granted(b) # Failed
         /\ \A a : Granted(a) = Granted(b) => a = b
         /\ Granted(b).t = "granted" /\ Granted(b).buffer = b
         /\ NoReply.t # "granted" /\ Failed.t # "granted"
  BY DEF Granted, NoReply, Failed

\* Whoever has a framebuffer has a connection, and is not giving anything back.
LEMMA HasConn ==
  ASSUME PlacesOK, NEW b \in Nat1, NEW c \in Clients, Has(c, b)
  PROVE  conn[c] # Nobody /\ place[c] \in {"asked", "idle", "free"}
  BY DEF PlacesOK, Has, Nat1

\* A step in which nobody gets a framebuffer and no lease changes hands.
LEMMA GrantsKept ==
  ASSUME GrantsOK, UNCHANGED <<mgr_up, buffer, holder>>,
         \A b \in Nat1, c \in Clients : Has(c, b)' => Has(c, b) /\ conn'[c] = conn[c]
  PROVE  GrantsOK'
<1> SUFFICES ASSUME NEW b \in Nat1, NEW c \in Clients, Has(c, b)'
             PROVE  (/\ b <= buffer
                     /\ mgr_up /\ b = buffer => holder = conn[c]
                     /\ \A d \in Clients : Has(d, b) => c = d)'
  BY DEF GrantsOK
<1>1. Has(c, b) /\ conn'[c] = conn[c] /\ \A d \in Clients : Has(d, b)' => Has(d, b)
  OBVIOUS
<1>2. QED
  BY <1>1 DEF GrantsOK

\* What display-mgr answers leaves everyone with what they had, but for the one
\* that it grants its framebuffer.
LEMMA AnswerGrants ==
  ASSUME PlacesOK, UNCHANGED <<place, conn, mapped>>, NEW from, NEW r, Answers(from, r),
         NEW b \in Nat1, NEW c \in Clients, Has(c, b)'
  PROVE  Has(c, b) \/ (conn[c] = from /\ r = Granted(b))
  BY DEF Answers, Has

\* display-mgr grants its framebuffer to one connection at a time, and takes the
\* lease only from one that has nothing.
LEMMA MgrGrants ==
  ASSUME TypeOK, MgrOK, PlacesOK, InboxOK, GrantsOK, MgrStep
  PROVE  GrantsOK'
<1> DEFINE from == Head(inbox).from
<1>0. /\ inbox \in Seq(Mail) /\ buffer \in Nat /\ mgr_up /\ inbox # <<>>
      /\ UNCHANGED <<mgr_up, buffer, place, conn, mapped>>
  BY DEF TypeOK, Mail, MgrStep, AcquireLease, ReleaseLease, LosesHolder, Receives
<1>1. /\ Head(inbox) = Message(Head(inbox).t, from) /\ from \in Nat
      /\ In(Head(inbox), inbox)
  BY <1>0, HeadMessage, InTail
<1> HIDE DEF from
<1>2. SUFFICES ASSUME NEW b \in Nat1, NEW c \in Clients, Has(c, b)'
               PROVE  (/\ b <= buffer
                       /\ mgr_up /\ b = buffer => holder = conn[c]
                       /\ \A d \in Clients : Has(d, b) => c = d)'
  BY DEF GrantsOK
<1>3. \A d \in Clients : Has(d, b) =>
        /\ b <= buffer
        /\ b = buffer => holder = conn[d]
        /\ conn[d] # Nobody /\ place[d] \in {"asked", "idle", "free"}
        /\ \A e \in Clients : Has(e, b) => d = e
  BY <1>0, HasConn DEF GrantsOK
<1>4. CASE AcquireLease
  <2>1. In(Message("acquire", from), inbox)
    BY <1>1, <1>4 DEF AcquireLease, Receives
  <2>2. from # Nobody
    BY <1>1, <2>1 DEF InboxOK, Nobody
  <2>3. CASE holder \notin {Nobody, from}
    <3>1. Answers(from, Failed) /\ holder' = holder
      BY <1>4, <2>3 DEF AcquireLease, from
    <3>2. \A d \in Clients : Has(d, b)' => Has(d, b)
      BY <1>0, <3>1, AnswerGrants, ReplyFacts
    <3>3. QED
      BY <1>0, <1>2, <1>3, <3>1, <3>2
  <2>4. CASE holder \in {Nobody, from} /\ ~Alive(from) /\ holder = Nobody
    <3>1. reply' = reply /\ holder' = holder
      BY <1>4, <2>4 DEF AcquireLease, from
    <3>2. \A d \in Clients : Has(d, b)' => Has(d, b)
      BY <1>0, <3>1 DEF Has
    <3>3. QED
      BY <1>0, <1>2, <1>3, <3>1, <3>2
  <2>5. CASE holder \in {Nobody, from} /\ ~(~Alive(from) /\ holder = Nobody)
    <3>1. Answers(from, Granted(buffer)) /\ holder' = from
      BY <1>4, <2>5 DEF AcquireLease, from
    <3>2. \A d \in Clients : Has(d, b)' =>
            Has(d, b) \/ (conn[d] = from /\ b = buffer)
      BY <1>0, <3>1, AnswerGrants, ReplyFacts
    <3>3. \A d \in Clients : Has(d, b) /\ b = buffer => conn[d] = from
      BY <1>3, <2>5
    <3>4. \A d \in Clients : conn[d] = from /\ conn[c] = from => c = d
      BY <2>2 DEF PlacesOK
    <3>5. b = buffer => b <= buffer
      BY <1>0
    <3>6. QED
      BY <1>0, <1>2, <1>3, <3>1, <3>2, <3>3, <3>4, <3>5
  <2>6. QED
    BY <2>3, <2>4, <2>5
<1>5. CASE ReleaseLease
  <2>1. In(Message("release", from), inbox)
    BY <1>1, <1>5 DEF ReleaseLease, Receives
  <2>2. \A d \in Clients : conn[d] = from => place[d] \in {"releasing", "close"}
    BY <1>1, <2>1 DEF InboxOK
  <2>3. /\ Answers(from, IF holder = from THEN Granted(0) ELSE Failed)
        /\ holder # from => holder' = holder
    BY <1>5 DEF ReleaseLease, from
  <2>4. b # 0
    BY DEF Nat1
  <2>5. \A d \in Clients : Has(d, b)' => Has(d, b)
    BY <1>0, <2>3, <2>4, AnswerGrants, ReplyFacts
  <2>6. \A d \in Clients : Has(d, b) => conn[d] # from
    BY <1>3, <2>2
  <2>7. QED
    BY <1>0, <1>2, <1>3, <2>3, <2>5, <2>6
<1>6. CASE LosesHolder
  <2>1. In(Message("gone", from), inbox)
    BY <1>1, <1>6 DEF LosesHolder, Receives
  <2>2. \A d \in Clients : conn[d] # from
    BY <1>1, <2>1 DEF InboxOK, Alive
  <2>3. reply' = reply /\ (holder # from => holder' = holder)
    BY <1>6 DEF LosesHolder, from
  <2>4. \A d \in Clients : Has(d, b)' => Has(d, b)
    BY <1>0, <2>3 DEF Has
  <2>5. QED
    BY <1>0, <1>2, <1>3, <2>2, <2>3, <2>4
<1>7. QED
  BY <1>4, <1>5, <1>6 DEF MgrStep

\* Every step leaves a framebuffer with one client, which holds its lease.
LEMMA NextGrants ==
  TypeOK /\ MgrOK /\ PlacesOK /\ InboxOK /\ GrantsOK /\ [Next]_vars => GrantsOK'
<1> SUFFICES ASSUME TypeOK, MgrOK, PlacesOK, InboxOK, GrantsOK, [Next]_vars
             PROVE  GrantsOK'
  OBVIOUS
<1>0. /\ place \in [Clients -> Places] /\ conn \in [Clients -> 0 .. conns]
      /\ mapped \in [Clients -> 0 .. MaxBuffers] /\ buffer \in Nat
      /\ reply \in [Clients -> [t : {"none", "failed", "granted"},
                                buffer : 0 .. MaxBuffers]]
  BY DEF TypeOK
<1>1. CASE MgrStarts
  <2>1. /\ mgr_up' = TRUE /\ buffer' = buffer + 1
        /\ \A b \in Nat1, c \in Clients : Has(c, b)' <=> Has(c, b)
    BY <1>1 DEF MgrStarts, Has
  <2>2. \A b \in Nat1 : b <= buffer => b <= buffer' /\ b # buffer'
    BY <1>0, <2>1 DEF Nat1
  <2>3. QED
    BY <2>1, <2>2 DEF GrantsOK
<1>2. CASE MgrEnds
  <2>1. /\ mgr_up' = FALSE /\ buffer' = buffer
        /\ \A b \in Nat1, c \in Clients : Has(c, b)' => Has(c, b)
    BY <1>2, ReplyFacts DEF MgrEnds, Has
  <2>2. QED
    BY <2>1 DEF GrantsOK
<1>3. CASE MgrStep
  BY <1>3, MgrGrants
<1>4. ASSUME NEW c \in Clients, Asks(c) PROVE GrantsOK'
  <2>1. \A b \in Nat1, d \in Clients : Has(d, b)' => Has(d, b) /\ d # c
    <3>1. ASSUME NEW b \in Nat1, NEW d \in Clients, d # c, Has(d, b)' PROVE Has(d, b)
      BY <1>4, <3>1, AskingSteps DEF Has
    <3>2. ASSUME NEW b \in Nat1 PROVE ~Has(c, b)'
      <4>1. mapped'[c] = 0 /\ reply'[c] \in {NoReply, Failed} /\ b # 0
        BY <1>4, AskingSteps DEF Nat1
      <4>2. QED
        BY <4>1, ReplyFacts DEF Has
    <3>3. QED
      BY <3>1, <3>2
  <2>2. UNCHANGED <<mgr_up, buffer, holder>> /\ \A d \in Clients : d # c => conn'[d] = conn[d]
    BY <1>4, AskingSteps
  <2>3. QED
    BY <2>1, <2>2, GrantsKept
<1>5. ASSUME NEW c \in Clients, Maps(c) PROVE GrantsOK'
  <2>1. UNCHANGED <<mgr_up, buffer, holder, conn>>
    BY <1>5 DEF Maps, mgrVars
  <2>2. ASSUME NEW b \in Nat1, NEW d \in Clients, Has(d, b)' PROVE Has(d, b)
    <3>1. CASE d = c
      <4>1. /\ place[c] = "asked" /\ reply[c].t = "granted" /\ reply'[c] = NoReply
            /\ mapped'[c] = reply[c].buffer
        BY <1>0, <1>5 DEF Maps
      <4>2. reply[c].buffer = b
        BY <2>2, <3>1, <4>1, ReplyFacts DEF Has
      <4>3. reply[c] = Granted(b)
        BY <1>0, <4>1, <4>2 DEF Granted
      <4>4. QED
        BY <3>1, <4>1, <4>3 DEF Has
    <3>2. CASE d # c
      BY <1>0, <1>5, <2>2, <3>2 DEF Maps, Goes, Has
    <3>3. QED
      BY <3>1, <3>2
  <2>3. QED
    BY <2>1, <2>2, GrantsKept
<1>6. ASSUME NEW c \in Clients, GetsNothing(c) \/ Released(c) \/ Frees(c) \/ Starts(c)
                                \/ Finishes(c) \/ HandlesUpDown(c)
      PROVE  GrantsOK'
  <2>1. UNCHANGED <<mgr_up, buffer, holder, conn>>
    BY <1>6 DEF GetsNothing, Released, Frees, Starts, Finishes, HandlesUpDown, mgrVars
  <2>2. /\ mapped' \in {mapped, [mapped EXCEPT ![c] = 0]}
        /\ reply' \in {reply, [reply EXCEPT ![c] = NoReply], [reply EXCEPT ![c] = Failed]}
        /\ \E p \in Places \ {"asked"} : place' = [place EXCEPT ![c] = p]
    BY <1>6 DEF GetsNothing, Released, Frees, Calls, Starts, Finishes, HandlesUpDown,
       Goes, Places
  <2>3. \A b \in Nat1, d \in Clients : Has(d, b)' => Has(d, b)
    BY <1>0, <2>2, ReplyFacts DEF Has, Nat1
  <2>4. QED
    BY <2>1, <2>3, GrantsKept
<1>7. ASSUME NEW c \in Clients, Closes(c) \/ Dies(c) PROVE GrantsOK'
  <2>1. /\ UNCHANGED <<mgr_up, buffer, holder>> /\ place'[c] # "asked"
        /\ \A d \in Clients : d # c => conn'[d] = conn[d] /\ place'[d] = place[d]
    BY <1>7, ClosingSteps
  <2>2. /\ mapped'[c] = 0
        /\ \A d \in Clients : d # c => mapped'[d] = mapped[d] /\ reply'[d] = reply[d]
    <3>1. CASE Closes(c)
      BY <1>0, <3>1 DEF Closes, PlacesOK
    <3>2. CASE Dies(c)
      BY <1>0, <3>2 DEF Dies
    <3>3. QED
      BY <1>7, <3>1, <3>2
  <2>3. \A b \in Nat1, d \in Clients : Has(d, b)' => Has(d, b) /\ d # c
    BY <2>1, <2>2 DEF Has, Nat1
  <2>4. QED
    BY <2>1, <2>3, GrantsKept
<1>8. CASE UNCHANGED vars
  <2>1. UNCHANGED <<mgr_up, buffer, holder, conn, place, mapped, reply>>
    BY <1>8 DEF vars, mgrVars, clientVars
  <2>2. QED
    BY <2>1 DEF GrantsOK, Has
<1>9. QED
  BY <1>1, <1>2, <1>3, <1>4, <1>5, <1>6, <1>7, <1>8 DEF Next, ClientStep

-----------------------------------------------------------------------------
(* The watch on the holder. *)

\* Every step leaves the lease with a connection that is open, or of whose end
\* display-mgr is about to hear.
LEMMA NextWatched ==
  TypeOK /\ PlacesOK /\ HolderWatched /\ [Next]_vars => HolderWatched'
<1> SUFFICES ASSUME TypeOK, PlacesOK, HolderWatched, [Next]_vars, holder' # Nobody
             PROVE  Alive(holder)' \/ In(Message("gone", holder), inbox)'
  BY DEF HolderWatched
<1>0. /\ inbox \in Seq(Mail) /\ conns \in Nat
      /\ \A c \in Clients : conn[c] \in Nat
  BY DEF TypeOK, Mail
<1>1. CASE MgrStarts \/ UNCHANGED vars
  BY <1>1 DEF MgrStarts, vars, mgrVars, clientVars, HolderWatched, Alive
<1>2. CASE MgrEnds
  BY <1>2 DEF MgrEnds
<1>3. CASE MgrStep
  <2>1. /\ inbox # <<>> /\ inbox' = Tail(inbox) /\ conn' = conn
    BY <1>3 DEF MgrStep, AcquireLease, ReleaseLease, LosesHolder, Receives
  <2>2. /\ \A m : In(m, inbox) /\ m # Head(inbox) => In(m, inbox')
        /\ Head(inbox) = Message(Head(inbox).t, Head(inbox).from)
    BY <1>0, <2>1, InTail, HeadMessage
  <2>3. CASE AcquireLease
    <3>1. Head(inbox).t # "gone"
      BY <2>3 DEF AcquireLease, Receives
    <3>2. Message("gone", holder') # Head(inbox)
      BY <2>2, <3>1, MessageFacts
    <3>3. \/ holder' = holder
          \/ Alive(holder')
      BY <2>3 DEF AcquireLease
    <3>4. QED
      BY <2>1, <2>2, <3>2, <3>3 DEF HolderWatched, Alive
  <2>4. CASE ReleaseLease
    <3>1. Head(inbox).t # "gone" /\ holder' = holder
      BY <2>4 DEF ReleaseLease, Receives
    <3>2. Message("gone", holder') # Head(inbox)
      BY <2>2, <3>1, MessageFacts
    <3>3. QED
      BY <2>1, <2>2, <3>1, <3>2 DEF HolderWatched, Alive
  <2>5. CASE LosesHolder
    <3>1. holder # Head(inbox).from /\ holder' = holder
      BY <2>5 DEF LosesHolder
    <3>2. Message("gone", holder') # Head(inbox)
      BY <2>2, <3>1, MessageFacts
    <3>3. QED
      BY <2>1, <2>2, <3>1, <3>2 DEF HolderWatched, Alive
  <2>6. QED
    BY <1>3, <2>3, <2>4, <2>5 DEF MgrStep
<1>4. ASSUME NEW c \in Clients, Asks(c)
      PROVE  Alive(holder)' \/ In(Message("gone", holder), inbox)'
  <2>1. /\ holder' = holder /\ conn[c] = Nobody
        /\ inbox' \in {inbox, Append(inbox, Message("acquire", conns + 1))}
        /\ \A d \in Clients : d # c => conn'[d] = conn[d]
    BY <1>4, AskingSteps
  <2>2. Message("acquire", conns + 1) \in Mail
    BY <1>0, SentTypes
  <2>3. \A m : In(m, inbox) => In(m, inbox')
    <3>1. CASE inbox' = inbox
      BY <3>1
    <3>2. CASE inbox' = Append(inbox, Message("acquire", conns + 1))
      BY <1>0, <2>2, <3>2, InAppend
    <3>3. QED
      BY <2>1, <3>1, <3>2
  <2>4. QED
    BY <2>1, <2>3 DEF HolderWatched, Alive
<1>5. ASSUME NEW c \in Clients, Frees(c)
      PROVE  Alive(holder)' \/ In(Message("gone", holder), inbox)'
  <2>1. /\ UNCHANGED <<holder, conn>>
        /\ inbox' \in {inbox, Append(inbox, Message("release", conn[c]))}
    BY <1>5 DEF Frees, Calls, mgrVars
  <2>2. Message("release", conn[c]) \in Mail
    BY <1>0, SentTypes
  <2>3. \A m : In(m, inbox) => In(m, inbox')
    <3>1. CASE inbox' = inbox
      BY <3>1
    <3>2. CASE inbox' = Append(inbox, Message("release", conn[c]))
      BY <1>0, <2>2, <3>2, InAppend
    <3>3. QED
      BY <2>1, <3>1, <3>2
  <2>4. QED
    BY <2>1, <2>3 DEF HolderWatched, Alive
<1>6. ASSUME NEW c \in Clients, Closes(c) \/ Dies(c)
      PROVE  Alive(holder)' \/ In(Message("gone", holder), inbox)'
  <2>1. /\ holder' = holder
        /\ \A d \in Clients : d # c => conn'[d] = conn[d]
        /\ inbox' = IF conn[c] # Nobody /\ holder = conn[c]
                    THEN Append(inbox, Message("gone", conn[c])) ELSE inbox
    BY <1>6, ClosingSteps DEF Disconnects
  <2>2. Message("gone", conn[c]) \in Mail
    BY <1>0, SentTypes
  <2>3. CASE holder = conn[c]
    <3>1. inbox' = Append(inbox, Message("gone", conn[c]))
      BY <2>1, <2>3
    <3>2. In(Message("gone", conn[c]), inbox')
      BY <1>0, <2>2, <3>1, InAppend
    <3>3. QED
      BY <2>1, <2>3, <3>2
  <2>4. CASE holder # conn[c]
    BY <2>1, <2>4 DEF HolderWatched, Alive
  <2>5. QED
    BY <2>3, <2>4
<1>7. ASSUME NEW c \in Clients,
             \/ Starts(c) \/ Maps(c) \/ GetsNothing(c) \/ Released(c) \/ Finishes(c)
             \/ HandlesUpDown(c)
      PROVE  Alive(holder)' \/ In(Message("gone", holder), inbox)'
  <2>1. UNCHANGED <<holder, inbox, conn>>
    BY <1>7, QuietSteps
  <2>2. QED
    BY <2>1 DEF HolderWatched, Alive
<1>8. QED
  BY <1>1, <1>2, <1>3, <1>4, <1>5, <1>6, <1>7 DEF Next, ClientStep

-----------------------------------------------------------------------------
(* The lease. *)

LEMMA InitLease == Init => LeaseOK
<1> SUFFICES ASSUME Init PROVE LeaseOK
  OBVIOUS
<1> USE LeaseAssumption DEF Init
<1>1. TypeOK
  <2>1. /\ <<>> \in Seq([t : {"acquire", "release", "gone"}, from : Nat])
        /\ <<>> \in Seq(BOOLEAN)
    BY EmptySeq
  <2>2. NoReply \in [t : {"none", "failed", "granted"}, buffer : 0 .. MaxBuffers]
    BY DEF NoReply
  <2>3. /\ mgr_up \in BOOLEAN /\ buffer \in 0 .. MaxBuffers /\ holder \in 0 .. conns
        /\ conn \in [Clients -> 0 .. conns] /\ mapped \in [Clients -> 0 .. MaxBuffers]
        /\ starts \in 0 .. MaxStarts /\ conns \in Nat
    <3>1. 0 \in 0 .. MaxBuffers /\ 0 \in 0 .. MaxStarts /\ 0 \in 0 .. 0 /\ 0 \in Nat
      OBVIOUS
    <3>2. mgr_up = FALSE /\ buffer = 0 /\ holder = 0 /\ starts = 0 /\ conns = 0
      BY DEF Nobody
    <3>3. conn = [c \in Clients |-> 0] /\ mapped = [c \in Clients |-> 0]
      BY DEF Nobody
    <3> HIDE DEF Init
    <3>4. QED
      BY <3>1, <3>2, <3>3
  <2>4. place \in [Clients -> Places]
    BY DEF Places
  <2>5. QED
    BY <2>1, <2>2, <2>3, <2>4 DEF TypeOK
<1>2. MgrOK /\ HolderWatched
  BY DEF MgrOK, HolderWatched
<1>3. PlacesOK
  BY DEF PlacesOK, InCall, Nobody
<1>4. InboxOK
  BY InEmpty DEF InboxOK
<1>5. GrantsOK
  BY ReplyFacts DEF GrantsOK, Has, Nat1
<1>6. QED
  BY <1>1, <1>2, <1>3, <1>4, <1>5 DEF LeaseOK

LEMMA NextLease == LeaseOK /\ [Next]_vars => LeaseOK'
  BY NextTypes, NextMgr, NextPlaces, NextInbox, NextGrants, NextWatched DEF LeaseOK

LEMMA LeaseOKAlways == Spec => []LeaseOK
  BY InitLease, NextLease, PTL DEF Spec

\* At all times, whatever the clients and display-mgr did, were told late or were
\* cut short in: no two processes have one framebuffer mapped, the one that has
\* that of the running display-mgr holds the lease, and display-mgr holds no lease
\* for a connection of whose end it will not hear (LeaseInv; method_acquire_lease,
\* method_release_lease, on_lease_track_drop and lib/drm_mgr).
THEOREM LeasesAgree == Spec => []LeaseInv
<1>1. LeaseOK => LeaseInv
  <2> SUFFICES ASSUME LeaseOK PROVE LeaseInv
    OBVIOUS
  <2>1. \A c \in Clients : mapped[c] \in Nat
    BY DEF LeaseOK, TypeOK
  <2>2. ExclusiveFb
    BY <2>1 DEF ExclusiveFb, LeaseOK, GrantsOK, Has, Nat1
  <2>3. MappedIsLeased
    <3>1. mgr_up => buffer \in Nat1
      BY LeaseAssumption DEF LeaseOK, MgrOK, TypeOK, Nat1
    <3>2. QED
      BY <3>1 DEF MappedIsLeased, LeaseOK, GrantsOK, Has
  <2>4. QED
    BY <2>2, <2>3 DEF LeaseInv, LeaseOK
<1>2. QED
  BY <1>1, LeaseOKAlways, PTL

-----------------------------------------------------------------------------
(* ambience follows display-mgr. *)

\* The last event is the one that was told last, and stays so until it is handled.
LEMMA LastEvent ==
  ASSUME NEW s \in Seq(BOOLEAN)
  PROVE  /\ \A up \in BOOLEAN : LET a == Append(s, up) IN a # <<>> /\ a[Len(a)] = up
         /\ s # <<>> /\ Tail(s) # <<>> => Tail(s)[Len(Tail(s))] = s[Len(s)]
         /\ s # <<>> /\ Tail(s) = <<>> => Head(s) = s[Len(s)]
<1>1. ASSUME NEW up \in BOOLEAN
      PROVE  Append(s, up) # <<>> /\ Append(s, up)[Len(Append(s, up))] = up
  <2>1. /\ Append(s, up) \in Seq(BOOLEAN) /\ Len(Append(s, up)) = Len(s) + 1
        /\ Append(s, up)[Len(s) + 1] = up
    BY AppendProperties
  <2>2. Len(s) \in Nat
    BY LenProperties
  <2>3. QED
    BY <2>1, <2>2, EmptySeq
<1>2. ASSUME s # <<>>
      PROVE  /\ Tail(s) # <<>> => Tail(s)[Len(Tail(s))] = s[Len(s)]
             /\ Tail(s) = <<>> => Head(s) = s[Len(s)]
  <2>1. /\ Tail(s) \in Seq(BOOLEAN) /\ Len(Tail(s)) = Len(s) - 1
        /\ \A i \in 1 .. Len(Tail(s)) : Tail(s)[i] = s[i + 1]
    BY <1>2, HeadTailProperties
  <2>2. Len(s) \in Nat /\ Len(s) # 0 /\ Head(s) = s[1]
    BY <1>2, LenProperties, EmptySeq
  <2>3. Tail(s) = <<>> <=> Len(Tail(s)) = 0
    BY <2>1, EmptySeq
  <2>4. QED
    BY <2>1, <2>2, <2>3
<1>3. QED
  BY <1>1, <1>2

\* What one client does leaves the others as they were.
LEMMA OthersKeep ==
  ASSUME TypeOK, NEW c \in Clients,
         \/ Asks(c) \/ Maps(c) \/ GetsNothing(c) \/ Frees(c) \/ Released(c)
         \/ Closes(c) \/ HandlesUpDown(c) \/ Starts(c) \/ Finishes(c) \/ Dies(c),
         NEW d \in Daemons, d # c, DaemonOK(d)
  PROVE  DaemonOK(d)'
<1>1. d \in Clients
  BY LeaseAssumption
<1>2. /\ UNCHANGED <<mgr_up, buffer>>
      /\ place'[d] = place[d] /\ reply'[d] = reply[d] /\ again'[d] = again[d]
      /\ events'[d] = events[d] /\ mapped'[d] = mapped[d] /\ refused'[d] = refused[d]
  <2>1. CASE Asks(c) \/ Frees(c)
    BY <1>1, <2>1 DEF TypeOK, Asks, Frees, Calls, Goes, mgrVars
  <2>2. CASE Maps(c) \/ GetsNothing(c) \/ Released(c) \/ Starts(c)
    BY <1>1, <2>2 DEF TypeOK, Maps, GetsNothing, Released, Starts, Goes, mgrVars
  <2>3. CASE Closes(c) \/ Finishes(c) \/ HandlesUpDown(c)
    BY <1>1, <2>3 DEF TypeOK, Closes, Finishes, HandlesUpDown, Goes, mgrVars
  <2>4. CASE Dies(c)
    BY <1>1, <2>4 DEF TypeOK, Dies, Goes, mgrVars
  <2>5. QED
    BY <2>1, <2>2, <2>3, <2>4
<1>3. QED
  BY <1>2 DEF DaemonOK

\* What a step of ambience leaves it knowing and owing.
LEMMA DaemonSteps ==
  ASSUME TypeOK, PlacesOK, NEW c \in Daemons, DaemonOK(c),
         \/ Asks(c) \/ Maps(c) \/ GetsNothing(c) \/ Frees(c) \/ Released(c)
         \/ Closes(c) \/ HandlesUpDown(c) \/ Starts(c) \/ Finishes(c) \/ Dies(c)
  PROVE  DaemonOK(c)'
<1>0. /\ c \in Clients
      /\ place \in [Clients -> Places] /\ again \in [Clients -> BOOLEAN]
      /\ refused \in [Clients -> BOOLEAN] /\ events \in [Clients -> Seq(BOOLEAN)]
      /\ mapped \in [Clients -> 0 .. MaxBuffers]
      /\ reply \in [Clients -> [t : {"none", "failed", "granted"},
                                buffer : 0 .. MaxBuffers]]
  BY LeaseAssumption DEF TypeOK
<1>1. CASE Asks(c)
  <2>1. /\ UNCHANGED <<mgr_up, buffer, events>> /\ place[c] = "ask"
        /\ place'[c] = "asked" /\ reply'[c].t # "granted"
    BY <1>0, <1>1, AskingSteps, ReplyFacts DEF Asks, mgrVars
  <2>2. QED
    BY <2>1 DEF DaemonOK
<1>2. CASE Maps(c)
  <2>1. /\ UNCHANGED <<mgr_up, buffer, events>> /\ place[c] = "asked"
        /\ reply[c].t = "granted" /\ mapped'[c] = reply[c].buffer /\ place'[c] = "idle"
    BY <1>0, <1>2 DEF Maps, Goes, mgrVars
  <2>2. QED
    BY <2>1 DEF DaemonOK
<1>3. CASE GetsNothing(c)
  <2>1. /\ UNCHANGED <<mgr_up, buffer, events>> /\ place[c] = "asked"
        /\ place'[c] = "close" /\ refused'[c] = mgr_up
    BY <1>0, <1>3 DEF GetsNothing, Goes, mgrVars
  <2>2. QED
    BY <2>1 DEF DaemonOK
<1>4. CASE Frees(c)
  <2>1. /\ UNCHANGED <<mgr_up, buffer, events, again>> /\ place[c] = "free"
        /\ place'[c] = "releasing"
    BY <1>0, <1>4 DEF Frees, Goes, mgrVars
  <2>2. QED
    BY <2>1 DEF DaemonOK
<1>5. CASE Released(c)
  <2>1. /\ UNCHANGED <<mgr_up, buffer, events, again>> /\ place[c] = "releasing"
        /\ place'[c] = "close"
    BY <1>0, <1>5 DEF Released, Goes, mgrVars
  <2>2. QED
    BY <2>1 DEF DaemonOK
<1>6. CASE Closes(c)
  <2>1. /\ UNCHANGED <<mgr_up, buffer, events, again, refused>> /\ place[c] = "close"
        /\ place'[c] = IF again[c] THEN "ask" ELSE "idle"
    BY <1>0, <1>6 DEF Closes, Goes, mgrVars
  <2>2. QED
    BY <2>1 DEF DaemonOK
<1>7. CASE HandlesUpDown(c)
  <2>1. /\ UNCHANGED <<mgr_up, buffer>> /\ events[c] # <<>>
        /\ events'[c] = Tail(events[c]) /\ again'[c] = Head(events[c])
        /\ place'[c] = IF conn[c] # Nobody THEN "free"
                       ELSE IF Head(events[c]) THEN "ask" ELSE "idle"
    BY <1>0, <1>7 DEF HandlesUpDown, Goes, mgrVars
  <2>2. /\ Tail(events[c]) # <<>> =>
             Tail(events[c])[Len(Tail(events[c]))] = events[c][Len(events[c])]
        /\ Tail(events[c]) = <<>> => Head(events[c]) = events[c][Len(events[c])]
    BY <1>0, <2>1, LastEvent
  <2>3. QED
    BY <2>1, <2>2 DEF DaemonOK
<1>8. CASE Starts(c)
  <2>1. /\ UNCHANGED <<mgr_up, buffer, events>> /\ place[c] = "down" /\ place'[c] = "ask"
    BY <1>0, <1>8 DEF Starts, Goes, mgrVars
  <2>2. QED
    BY <2>1 DEF DaemonOK
<1>9. CASE Finishes(c)
  BY <1>9 DEF Finishes
<1>10. CASE Dies(c)
  <2>1. events'[c] = <<>> /\ place'[c] = "down"
    BY <1>0, <1>10 DEF Dies, Goes
  <2>2. QED
    BY <2>1 DEF DaemonOK
<1>11. QED
  BY <1>1, <1>2, <1>3, <1>4, <1>5, <1>6, <1>7, <1>8, <1>9, <1>10

\* Every step leaves ambience knowing of the display-mgr that runs.
LEMMA NextDaemons ==
  TypeOK /\ PlacesOK /\ InboxOK /\ DaemonsOK /\ [Next]_vars => DaemonsOK'
<1> SUFFICES ASSUME TypeOK, PlacesOK, InboxOK, DaemonsOK, [Next]_vars,
                    NEW d \in Daemons
             PROVE  DaemonOK(d)'
  BY DEF DaemonsOK
<1>0. d \in Clients /\ DaemonOK(d) /\ events[d] \in Seq(BOOLEAN)
  BY LeaseAssumption DEF DaemonsOK, TypeOK
<1>1. ASSUME NEW up \in BOOLEAN, Tells(up), mgr_up' = up, place' = place
      PROVE  DaemonOK(d)'
  <2>1. CASE place[d] = "down"
    <3>1. events'[d] = <<>> /\ place'[d] = "down"
      BY <1>0, <1>1, <2>1 DEF Tells, Listens, DaemonOK
    <3>2. QED
      BY <3>1 DEF DaemonOK
  <2>2. CASE place[d] # "down"
    <3>1. events'[d] = Append(events[d], up) /\ place'[d] # "down"
      BY <1>0, <1>1, <2>2 DEF Tells, Listens
    <3>2. events'[d] # <<>> /\ events'[d][Len(events'[d])] = up
      BY <1>0, <3>1, LastEvent
    <3>3. QED
      BY <1>1, <3>1, <3>2 DEF DaemonOK
  <2>3. QED
    BY <2>1, <2>2
<1>2. CASE MgrStarts
  BY <1>1, <1>2 DEF MgrStarts
<1>3. CASE MgrEnds
  BY <1>1, <1>3 DEF MgrEnds
<1>4. CASE MgrStep
  <2>1. /\ UNCHANGED <<mgr_up, buffer, place, conn, mapped, again, events, refused>>
        /\ inbox # <<>> /\ inbox \in Seq(Mail)
    BY <1>4 DEF MgrStep, AcquireLease, ReleaseLease, LosesHolder, Receives, TypeOK, Mail
  <2>2. place[d] = "asked" => \/ reply'[d] = reply[d]
                              \/ reply'[d] \in {Failed, Granted(buffer)}
    <3>1. CASE AcquireLease
      BY <1>0, <3>1 DEF AcquireLease, Answers
    <3>2. CASE ReleaseLease
      <4>1. In(Message("release", Head(inbox).from), inbox)
        BY <2>1, <3>2, HeadMessage, InTail DEF ReleaseLease, Receives
      <4>2. Head(inbox).from \in Nat
        BY <2>1, HeadMessage
      <4>3. place[d] = "asked" => conn[d] # Head(inbox).from
        BY <1>0, <4>1, <4>2 DEF InboxOK
      <4>4. QED
        BY <1>0, <3>2, <4>3 DEF ReleaseLease, Answers
    <3>3. CASE LosesHolder
      BY <3>3 DEF LosesHolder
    <3>4. QED
      BY <1>4, <3>1, <3>2, <3>3 DEF MgrStep
  <2>3. QED
    BY <1>0, <2>1, <2>2, ReplyFacts DEF DaemonOK
<1>5. ASSUME NEW c \in Clients,
             \/ Asks(c) \/ Maps(c) \/ GetsNothing(c) \/ Frees(c) \/ Released(c)
             \/ Closes(c) \/ HandlesUpDown(c) \/ Starts(c) \/ Finishes(c) \/ Dies(c)
      PROVE  DaemonOK(d)'
  <2>1. CASE c = d
    BY <1>0, <1>5, <2>1, DaemonSteps
  <2>2. CASE c # d
    BY <1>0, <1>5, <2>2, OthersKeep
  <2>3. QED
    BY <2>1, <2>2
<1>6. CASE UNCHANGED vars
  BY <1>0, <1>6 DEF vars, mgrVars, clientVars, DaemonOK
<1>7. QED
  BY <1>2, <1>3, <1>4, <1>5, <1>6 DEF Next, ClientStep

\* ambience never rests on a framebuffer of a display-mgr that is gone, or on
\* none, while another runs that it has not asked: whatever order the ends and
\* starts of display-mgr reach it in, and whatever it was in the middle of
\* (FollowsDisplayMgr; on_drm_mgr_updown and drm_mgr_acquire_fb).
THEOREM DaemonsFollow == Spec => []FollowsDisplayMgr
<1>1. Init => DaemonsOK
  BY LeaseAssumption DEF Init, DaemonsOK, DaemonOK
<1>2. LeaseOK /\ DaemonsOK /\ [Next]_vars => DaemonsOK'
  BY NextDaemons DEF LeaseOK
<1>3. DaemonsOK => FollowsDisplayMgr
  BY DEF DaemonsOK, DaemonOK, FollowsDisplayMgr
<1>4. QED
  BY <1>1, <1>2, <1>3, LeaseOKAlways, PTL DEF Spec
=============================================================================
