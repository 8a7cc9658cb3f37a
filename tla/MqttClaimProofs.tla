--------------------------- MODULE MqttClaimProofs ---------------------------
(***************************************************************************)
(* Proofs that bridges which share a prefix keep its record right           *)
(* (MqttClaim), for any machines, configurations and number of sessions.    *)
(***************************************************************************)
EXTENDS MqttClaim, SequenceTheorems, TLAPS

-----------------------------------------------------------------------------
(* What a connection still has to tell the broker. *)

\* Every record published in s is of R.
Publishes(s, R) == \A k \in DOMAIN s : s[k].op = "publish" => s[k].record \in R

\* An orderly end is the last that is sent.
EndsOnce(s) == \A k \in DOMAIN s : s[k] = Disconnect => k = Len(s)
Leaves(s) == s # <<>> /\ s[Len(s)] = Disconnect

\* The record, now r, is of R once s was read.
Says(s, r, R) ==
  /\ \A k \in DOMAIN s :
       s[k].op = "publish" /\ (\A j \in DOMAIN s : j > k => s[j].op # "publish")
       => s[k].record \in R
  /\ Publishes(s, {}) => r \in R

-----------------------------------------------------------------------------
(* The inductive invariants. *)

Live(i) == broker[i] # "closed"

\* Where a bridge is says whether it has a session; its session is the broker's
\* too unless it was cut, and was or is claimed once the bridge runs.
BridgeOK(m) ==
  /\ conn[m] = 0 <=> phase[m] \in {"down", "lost"}
  /\ conn[m] # 0 =>
       /\ conn[m] <= opened /\ owner[conn[m]] = m
       /\ Live(conn[m]) \/ cut[conn[m]]
       /\ conn[m] \in served <=> Running(m)
  /\ subscribed[m] => phase[m] \in {"waiting", "up", "reconnecting"}

PlaceOK ==
  /\ \A m \in Machine : BridgeOK(m)
  /\ \A i \in Session :
       /\ i <= opened => owner[i] \in Machine
       /\ Live(i) \/ i \in served => i <= opened

Of(m) == {Offline(m)} \cup {Online(m, c) : c \in Cfg \cup {NoCfg}}

\* A session publishes for its bridge, once that has claimed the prefix; a bridge
\* that left it whole said so at its end.
SessionOK(i) ==
  /\ Publishes(inbox[i], IF i \in served THEN Of(owner[i]) ELSE {})
  /\ EndsOnce(inbox[i])
  /\ conn[owner[i]] = i => ~Leaves(inbox[i])
  /\ conn[owner[i]] # i => cut[i] \/ Leaves(inbox[i])
  /\ broker[i] = "new" =>
       IF inbox[i] = <<>> THEN cut[i] ELSE Head(inbox[i]) = Connect

InboxOK == \A i \in Session : Live(i) => SessionOK(i)

\* A claim is one message at a time; without a session nothing is read.
ClaimingOK(m) ==
  /\ conn[m] = 0 => mail[m] = <<>>
  /\ phase[m] = "connecting" /\ ~cut[conn[m]] =>
       \/ broker[conn[m]] = "new" /\ inbox[conn[m]] = <<Connect>> /\ mail[m] = <<>>
       \/ broker[conn[m]] = "open" /\ inbox[conn[m]] = <<>> /\ mail[m] = <<Connack>>
  /\ phase[m] = "waiting" /\ ~cut[conn[m]] =>
       /\ broker[conn[m]] = "open"
       /\ inbox[conn[m]] = IF subscribed[m] THEN <<>> ELSE <<Subscribe>>
       /\ ~subscribed[m] => mail[m] = <<>>

ClaimOK == \A m \in Machine : ClaimingOK(m)

-----------------------------------------------------------------------------
(* Queues of messages. *)

LEMMA MessageFacts ==
  \A x \in Message :
    /\ x.op = "publish" => x.record \in Record /\ x = Publish(x.record)
    /\ x.op = "connect" => x = Connect
    /\ x.op = "disconnect" => x = Disconnect
    /\ x.op = "subscribe" => x = Subscribe
BY DEF Message, Publish, Connect, Subscribe, Disconnect, Connack

\* A message sent comes last.
LEMMA Sending ==
  ASSUME NEW s \in Seq(Message), NEW x \in Message
  PROVE  LET t == s \o <<x>> IN
         /\ t \in Seq(Message) /\ t # <<>> /\ t[Len(t)] = x
         /\ s # <<>> => Head(t) = Head(s)
         /\ \A R : Publishes(s, R) /\ (x.op = "publish" => x.record \in R)
                   => Publishes(t, R)
         /\ EndsOnce(s) /\ ~Leaves(s) => EndsOnce(t)
         /\ \A r, R : x.op = "publish" /\ x.record \in R => Says(t, r, R)
         /\ \A r, R : x.op # "publish" /\ Says(s, r, R) => Says(t, r, R)
<1> DEFINE t == s \o <<x>>
<1>1. /\ t \in Seq(Message) /\ Len(t) = Len(s) + 1 /\ t[Len(t)] = x
      /\ \A k \in 1 .. Len(s) : t[k] = s[k]
      /\ DOMAIN t = 1 .. Len(s) + 1 /\ DOMAIN s = 1 .. Len(s) /\ Len(s) \in Nat
  OBVIOUS
<1> HIDE DEF t
<1>2. t # <<>>
  BY <1>1
<1>3. s # <<>> => Head(t) = Head(s)
  BY <1>1
<1>4. ASSUME NEW R, Publishes(s, R), x.op = "publish" => x.record \in R
      PROVE  Publishes(t, R)
  BY <1>1, <1>4 DEF Publishes
<1>5. EndsOnce(s) /\ ~Leaves(s) => EndsOnce(t)
  BY <1>1 DEF EndsOnce, Leaves
<1>6. ASSUME NEW r, NEW R, x.op = "publish", x.record \in R PROVE Says(t, r, R)
  <2>1. ~Publishes(t, {})
    BY <1>1, <1>6 DEF Publishes
  <2>2. ASSUME NEW k \in DOMAIN t, \A j \in DOMAIN t : j > k => t[j].op # "publish"
        PROVE  k = Len(t)
    BY <1>1, <1>6, <2>2
  <2>3. QED
    BY <1>1, <1>6, <2>1, <2>2 DEF Says
<1>7. ASSUME NEW r, NEW R, x.op # "publish", Says(s, r, R) PROVE Says(t, r, R)
  <2>1. ASSUME NEW k \in DOMAIN t, t[k].op = "publish",
               \A j \in DOMAIN t : j > k => t[j].op # "publish"
        PROVE  t[k].record \in R
    <3>1. k \in DOMAIN s /\ t[k] = s[k]
      BY <1>1, <1>7, <2>1
    <3>2. \A j \in DOMAIN s : j > k => s[j].op # "publish"
      BY <1>1, <2>1
    <3>3. QED
      BY <1>7, <2>1, <3>1, <3>2 DEF Says
  <2>2. Publishes(t, {}) => Publishes(s, {})
    BY <1>1 DEF Publishes
  <2>3. QED
    BY <1>7, <2>1, <2>2 DEF Says
<1>8. QED
  BY <1>1, <1>2, <1>3, <1>4, <1>5, <1>6, <1>7 DEF t

\* What is read is what came first.
LEMMA Reading ==
  ASSUME NEW s \in Seq(Message), s # <<>>
  PROVE  LET t == Tail(s) IN
         /\ Head(s) \in Message /\ t \in Seq(Message)
         /\ \A R : Publishes(s, R) =>
              Publishes(t, R) /\ (Head(s).op = "publish" => Head(s).record \in R)
         /\ EndsOnce(s) => EndsOnce(t) /\ (Head(s) = Disconnect => t = <<>>)
         /\ Leaves(t) => Leaves(s)
         /\ Leaves(s) /\ Head(s) # Disconnect => Leaves(t)
         /\ EndsOnce(s) /\ Head(s) = Disconnect => Leaves(s)
         /\ \A r, R : Says(s, r, R) =>
              Says(t, IF Head(s).op = "publish" THEN Head(s).record ELSE r, R)
<1> DEFINE t == Tail(s)
<1>1. /\ t \in Seq(Message) /\ Len(t) = Len(s) - 1 /\ Head(s) = s[1]
      /\ s[1] \in Message
      /\ \A k \in 1 .. Len(t) : t[k] = s[k + 1]
      /\ DOMAIN t = 1 .. Len(t) /\ DOMAIN s = 1 .. Len(s) /\ Len(s) \in Nat \ {0}
  BY HeadTailProperties, EmptySeq
<1> HIDE DEF t
<1>2. ASSUME NEW R, Publishes(s, R)
      PROVE  Publishes(t, R) /\ (Head(s).op = "publish" => Head(s).record \in R)
  BY <1>1, <1>2 DEF Publishes
<1>3. Len(t) = 0 => t = <<>>
  BY <1>1, EmptySeq
<1>4. EndsOnce(s) => EndsOnce(t) /\ (Head(s) = Disconnect => t = <<>> /\ Leaves(s))
  BY <1>1, <1>3 DEF EndsOnce, Leaves
<1>5. /\ Leaves(t) => Leaves(s)
      /\ Leaves(s) /\ Head(s) # Disconnect => Leaves(t)
  BY <1>1, <1>3 DEF Leaves
<1>6. ASSUME NEW r, NEW R, Says(s, r, R)
      PROVE  Says(t, IF Head(s).op = "publish" THEN Head(s).record ELSE r, R)
  <2>1. ASSUME NEW k \in DOMAIN t, t[k].op = "publish",
               \A j \in DOMAIN t : j > k => t[j].op # "publish"
        PROVE  t[k].record \in R
    <3>1. k + 1 \in DOMAIN s /\ s[k + 1] = t[k]
      BY <1>1, <2>1
    <3>2. ASSUME NEW j \in DOMAIN s, j > k + 1 PROVE s[j].op # "publish"
      <4>1. j - 1 \in DOMAIN t /\ j - 1 > k /\ t[j - 1] = s[j]
        BY <1>1, <2>1, <3>2
      <4>2. QED
        BY <2>1, <4>1
    <3>3. QED
      BY <1>6, <2>1, <3>1, <3>2 DEF Says
  <2>2. ASSUME Publishes(t, {})
        PROVE  (IF Head(s).op = "publish" THEN Head(s).record ELSE r) \in R
    <3>1. ASSUME NEW j \in DOMAIN s, j > 1 PROVE s[j].op # "publish"
      <4>1. j - 1 \in DOMAIN t /\ t[j - 1] = s[j]
        BY <1>1, <3>1
      <4>2. QED
        BY <2>2, <4>1 DEF Publishes
    <3>2. CASE Head(s).op = "publish"
      BY <1>1, <1>6, <3>1, <3>2 DEF Says
    <3>3. CASE Head(s).op # "publish"
      <4>1. Publishes(s, {})
        BY <1>1, <3>1, <3>3 DEF Publishes
      <4>2. QED
        BY <1>6, <3>3, <4>1 DEF Says
    <3>4. QED
      BY <3>2, <3>3
  <2>3. QED
    BY <2>1, <2>2 DEF Says
<1>7. QED
  BY <1>1, <1>2, <1>4, <1>5, <1>6 DEF t

LEMMA TailDiffers == \A s \in Seq(Message) : s # <<>> => Tail(s) # s
<1> SUFFICES ASSUME NEW s \in Seq(Message), s # <<>> PROVE Tail(s) # s
  OBVIOUS
<1> DEFINE t == Tail(s)
<1>1. Len(t) = Len(s) - 1 /\ Len(s) \in Nat
  BY HeadTailProperties, LenProperties
<1> HIDE DEF t
<1>2. t # s
  BY <1>1
<1>3. QED
  BY <1>2 DEF t

LEMMA Farewell ==
  \A s \in Seq(Message), x \in Message :
    s \o <<x, Disconnect>> = (s \o <<x>>) \o <<Disconnect>>
<1> SUFFICES ASSUME NEW s \in Seq(Message), NEW x \in Message
             PROVE  s \o <<x, Disconnect>> = (s \o <<x>>) \o <<Disconnect>>
  OBVIOUS
<1>1. Disconnect \in Message
  BY DEF Message
<1>2. <<x>> \in Seq(Message) /\ <<Disconnect>> \in Seq(Message)
  BY <1>1
<1>3. <<x, Disconnect>> = <<x>> \o <<Disconnect>>
  OBVIOUS
<1>4. QED
  BY <1>2, <1>3, ConcatAssociative

\* The end of what was sent may be lost.
LEMMA Losing ==
  ASSUME NEW s \in Seq(Message), NEW t \in Prefixes(s)
  PROVE  /\ t \in Seq(Message)
         /\ t # <<>> => s # <<>> /\ Head(t) = Head(s)
         /\ \A R : Publishes(s, R) => Publishes(t, R)
         /\ EndsOnce(s) => EndsOnce(t) /\ (Leaves(t) => t = s)
<1>1. PICK l \in 0 .. Len(s) : t = SubSeq(s, 1, l)
  BY DEF Prefixes
<1>2. /\ t \in Seq(Message) /\ Len(t) = l
      /\ \A k \in 1 .. l : t[k] = s[k]
      /\ DOMAIN t = 1 .. l /\ DOMAIN s = 1 .. Len(s) /\ Len(s) \in Nat
  BY <1>1
<1>3. t # <<>> => s # <<>> /\ Head(t) = Head(s)
  BY <1>2
<1>4. ASSUME NEW R, Publishes(s, R) PROVE Publishes(t, R)
  BY <1>2, <1>4 DEF Publishes
<1>5. l = Len(s) => t = s
  BY <1>1, <1>2, SubSeqFull
<1>6. EndsOnce(s) => EndsOnce(t) /\ (Leaves(t) => t = s)
  <2>1. ASSUME EndsOnce(s) PROVE EndsOnce(t)
    BY <1>2, <2>1 DEF EndsOnce
  <2>2. ASSUME EndsOnce(s), Leaves(t) PROVE t = s
    <3>1. l > 0 /\ s[l] = Disconnect
      BY <1>2, <2>2, EmptySeq DEF Leaves
    <3>2. l \in DOMAIN s
      BY <1>1, <1>2, <3>1
    <3>3. l = Len(s)
      BY <2>2, <3>1, <3>2 DEF EndsOnce
    <3>4. QED
      BY <1>5, <3>3
  <2>3. QED
    BY <2>1, <2>2
<1>7. QED
  BY <1>2, <1>3, <1>4, <1>6

-----------------------------------------------------------------------------
(* The parts of a step. *)

LEMMA RecordFacts ==
  /\ Free \in Record
  /\ \A m \in Machine : Of(m) \subseteq Record /\ \A r \in Of(m) : r.who = m
  /\ \A m \in Machine : /\ Offline(m) \in Of(m)
                        /\ \A c \in Cfg \cup {NoCfg} : Online(m, c) \in Of(m)
  /\ \A r \in Record : r = Free \/ \E m \in Machine : r \in Of(m)
  /\ \A r \in Record : r.who \in Machine \cup {Nobody} /\ (r.who = Nobody => r = Free)
BY MachineAssumption DEF Record, Of, Free, Offline, Online

LEMMA Messages ==
  /\ Connect \in Message /\ Subscribe \in Message /\ Disconnect \in Message
  /\ Connack \in Message /\ \A r \in Record : Publish(r) \in Message
  /\ Connect.op = "connect" /\ Subscribe.op = "subscribe"
  /\ Disconnect.op = "disconnect" /\ Connack.op = "connack"
  /\ \A r : Publish(r).op = "publish" /\ Publish(r).record = r
BY DEF Message, Connect, Subscribe, Disconnect, Connack, Publish

LEMMA SendsFacts ==
  ASSUME TypeOK, NEW m \in Machine, NEW messages \in Seq(Message), Sends(m, messages)
  PROVE  /\ inbox' \in [Session -> Seq(Message)]
         /\ \A i \in Session :
              inbox'[i] = IF i = conn[m] /\ ~cut[i] THEN inbox[i] \o messages
                                                    ELSE inbox[i]
<1>1. /\ inbox \in [Session -> Seq(Message)]
      /\ conn[m] \in 0 .. MaxSessions /\ (conn[m] # 0 => conn[m] \in Session)
      /\ 0 \notin Session
  BY SessionAssumption DEF TypeOK, Session
<1>2. CASE conn[m] = 0 \/ cut[conn[m]]
  BY <1>1, <1>2 DEF Sends
<1>3. CASE ~(conn[m] = 0 \/ cut[conn[m]])
  <2>1. inbox[conn[m]] \in Seq(Message)
    BY <1>1, <1>3
  <2>2. inbox[conn[m]] \o messages \in Seq(Message)
    BY <2>1
  <2>3. inbox' = [inbox EXCEPT ![conn[m]] = @ \o messages]
    BY <1>3 DEF Sends
  <2>4. QED
    BY <1>1, <1>3, <2>2, <2>3
<1>4. QED
  BY <1>2, <1>3

LEMMA OpensFacts ==
  ASSUME TypeOK, NEW m \in Machine, Opens(m)
  PROVE  /\ opened' = opened + 1 /\ opened' \in Session /\ cut' = cut
         /\ owner' \in [Session -> Machine \cup {Nobody}]
         /\ broker' \in [Session -> {"new", "open", "closed"}]
         /\ inbox' \in [Session -> Seq(Message)]
         /\ conn' \in [Machine -> 0 .. MaxSessions]
         /\ owner'[opened'] = m /\ broker'[opened'] = "new"
         /\ inbox'[opened'] = <<Connect>> /\ conn'[m] = opened'
         /\ \A i \in Session : i # opened' =>
              /\ owner'[i] = owner[i] /\ broker'[i] = broker[i]
              /\ inbox'[i] = inbox[i]
         /\ \A n \in Machine : n # m => conn'[n] = conn[n]
<1>1. opened \in 0 .. MaxSessions /\ opened < MaxSessions /\ MaxSessions \in Nat
  BY SessionAssumption DEF TypeOK, Opens
<1>2. opened' = opened + 1 /\ opened' \in Session /\ opened' \in 0 .. MaxSessions
  BY <1>1 DEF Opens, Session
<1>3. <<Connect>> \in Seq(Message)
  BY Messages
<1>4. QED
  BY <1>2, <1>3 DEF Opens, TypeOK

LEMMA BreaksFacts ==
  ASSUME TypeOK, NEW i \in Session, Breaks(i)
  PROVE  /\ Live(i) /\ ~cut[i]
         /\ torn' = torn \cup ({i} \ served) /\ torn' \subseteq Session
         /\ cut' \in [Session -> BOOLEAN] /\ cut'[i]
         /\ inbox' \in [Session -> Seq(Message)]
         /\ inbox'[i] \in Prefixes(inbox[i])
         /\ \A j \in Session : j # i => cut'[j] = cut[j] /\ inbox'[j] = inbox[j]
<1>1. PICK rest \in Prefixes(inbox[i]) : inbox' = [inbox EXCEPT ![i] = rest]
  BY DEF Breaks
<1>2. inbox[i] \in Seq(Message)
  BY DEF TypeOK
<1>3. rest \in Seq(Message)
  BY <1>2, Losing
<1>4. QED
  BY <1>1, <1>3 DEF Breaks, TypeOK, Live

LEMMA ReadsFacts ==
  ASSUME TypeOK, NEW i \in Session, NEW op, Reads(i, op)
  PROVE  /\ Live(i) /\ inbox[i] # <<>> /\ Head(inbox[i]).op = op
         /\ inbox[i] \in Seq(Message) /\ Head(inbox[i]) \in Message
         /\ inbox' \in [Session -> Seq(Message)] /\ inbox'[i] = Tail(inbox[i])
         /\ \A j \in Session : j # i => inbox'[j] = inbox[j]
         /\ UNCHANGED <<opened, owner, cut, phase, conn, cfg, served, torn, contended>>
<1>1. inbox[i] \in Seq(Message) /\ inbox[i] # <<>>
  BY DEF TypeOK, Reads
<1>2. Tail(inbox[i]) \in Seq(Message) /\ Head(inbox[i]) \in Message
  BY <1>1, Reading
<1>3. QED
  BY <1>1, <1>2 DEF Reads, TypeOK, Live

LEMMA SilencesFacts ==
  ASSUME TypeOK, NEW i \in Session, NEW r \in Record
  PROVE  Silences(i, r) \in [Session -> SUBSET Machine]
<1>1. r.state = "offline" => r.who \in Machine
  BY RecordFacts DEF Free
<1>2. QED
  BY <1>1 DEF Silences, TypeOK

LEMMA AnswersFacts ==
  ASSUME TypeOK, NEW i \in Session, NEW messages \in Seq(Message),
         Answers(i, messages)
  PROVE  /\ mail' \in [Machine -> Seq(Message)]
         /\ \A m \in Machine :
              mail'[m] = IF m = owner[i] /\ conn[m] = i /\ ~cut[i]
                         THEN mail[m] \o messages ELSE mail[m]
<1>1. ASSUME NEW m \in Machine PROVE mail[m] \o messages \in Seq(Message)
  <2>1. mail[m] \in Seq(Message)
    BY DEF TypeOK
  <2>2. QED
    BY <2>1
<1>2. mail \in [Machine -> Seq(Message)]
  BY DEF TypeOK
<1>3. CASE conn[owner[i]] = i /\ ~cut[i]
  <2>1. mail' = [mail EXCEPT ![owner[i]] = @ \o messages]
    BY <1>3 DEF Answers
  <2>2. QED
    BY <1>1, <1>2, <1>3, <2>1
<1>4. CASE ~(conn[owner[i]] = i /\ ~cut[i])
  BY <1>2, <1>4 DEF Answers
<1>5. QED
  BY <1>3, <1>4

LEMMA RetainsFacts ==
  ASSUME TypeOK, NEW r \in Record, Retains(r)
  PROVE  /\ record' = r /\ mail' \in [Machine -> Seq(Message)]
         /\ \A m \in Machine :
              mail'[m] = IF subscribed[m] /\ ~cut[conn[m]]
                         THEN mail[m] \o <<Publish(r)>> ELSE mail[m]
<1>1. ASSUME NEW m \in Machine
      PROVE  /\ mail[m] \o <<Publish(r)>> \in Seq(Message)
             /\ Append(mail[m], Publish(r)) = mail[m] \o <<Publish(r)>>
  <2>1. mail[m] \in Seq(Message) /\ Publish(r) \in Message
    BY Messages DEF TypeOK
  <2>2. QED
    BY <2>1, AppendIsConcat
<1>2. mail \in [Machine -> Seq(Message)]
  BY DEF TypeOK
<1>3. QED
  BY <1>1, <1>2 DEF Retains

LEMMA EndsFacts ==
  ASSUME TypeOK, NEW m \in Machine, Ends(m)
  PROVE  /\ phase' \in [Machine -> Phases] /\ conn' \in [Machine -> 0 .. MaxSessions]
         /\ mail' \in [Machine -> Seq(Message)] /\ subscribed' \in [Machine -> BOOLEAN]
         /\ phase'[m] = "down" /\ conn'[m] = 0 /\ mail'[m] = <<>> /\ ~subscribed'[m]
         /\ \A n \in Machine : n # m =>
              /\ phase'[n] = phase[n] /\ conn'[n] = conn[n]
              /\ mail'[n] = mail[n] /\ subscribed'[n] = subscribed[n]
         /\ UNCHANGED <<record, opened, owner, broker, cfg, served, silenced, contended>>
<1>1. <<>> \in Seq(Message) /\ 0 \in 0 .. MaxSessions /\ "down" \in Phases
  BY SessionAssumption DEF Phases
<1>2. QED
  BY <1>1 DEF Ends, TypeOK

\* The messages a bridge sends.
LEMMA MessagesSent ==
  ASSUME TypeOK, NEW m \in Machine
  PROVE  /\ <<Subscribe>> \in Seq(Message) /\ <<Disconnect>> \in Seq(Message)
         /\ <<Connack>> \in Seq(Message)
         /\ Online(m, cfg[m]) \in Of(m)
         /\ <<Publish(Online(m, cfg[m]))>> \in Seq(Message)
         /\ \A c \in Cfg : <<Publish(Online(m, c))>> \in Seq(Message)
         /\ <<Publish(Offline(m)), Disconnect>> \in Seq(Message)
<1>1. cfg[m] \in Cfg \cup {NoCfg}
  BY DEF TypeOK
<1>2. /\ Online(m, cfg[m]) \in Record /\ Offline(m) \in Record
      /\ Online(m, cfg[m]) \in Of(m)
      /\ \A c \in Cfg : Online(m, c) \in Record
  BY <1>1 DEF Record, Of
<1>3. QED
  BY <1>2, Messages

-----------------------------------------------------------------------------
(* Types, and where everybody is. *)

LEMMA InitTypes == Init => TypeOK
<1>1. <<>> \in Seq(Message) /\ 0 \in 0 .. MaxSessions /\ "down" \in Phases
  BY SessionAssumption DEF Phases
<1> SUFFICES ASSUME Init PROVE TypeOK
  OBVIOUS
<1>2. /\ record \in Record /\ opened \in 0 .. MaxSessions
      /\ served \subseteq Session /\ torn \subseteq Session
      /\ silenced \in [Session -> SUBSET Machine]
  BY <1>1, RecordFacts DEF Init
<1>3. /\ owner \in [Session -> Machine \cup {Nobody}]
      /\ broker \in [Session -> {"new", "open", "closed"}]
      /\ cut \in [Session -> BOOLEAN] /\ inbox \in [Session -> Seq(Message)]
  BY <1>1 DEF Init
<1>4. /\ phase \in [Machine -> Phases] /\ conn \in [Machine -> 0 .. MaxSessions]
      /\ mail \in [Machine -> Seq(Message)] /\ subscribed \in [Machine -> BOOLEAN]
      /\ cfg \in [Machine -> Cfg \cup {NoCfg}] /\ contended \in BOOLEAN
  BY <1>1 DEF Init
<1>5. QED
  BY <1>2, <1>3, <1>4 DEF TypeOK

\* A bridge's session.
LEMMA Connected ==
  ASSUME TypeOK, PlaceOK, NEW m \in Machine
  PROVE  /\ 0 \notin Session /\ (conn[m] # 0 => conn[m] \in Session)
         /\ phase[m] \in {"connecting", "waiting", "up", "reconnecting"} => conn[m] # 0
         /\ phase[m] \in {"down", "lost"} => conn[m] = 0
         /\ conn[m] # 0 =>
              /\ conn[m] <= opened /\ owner[conn[m]] = m
              /\ Live(conn[m]) \/ cut[conn[m]]
              /\ Running(m) => conn[m] \in served
              /\ ~Running(m) => conn[m] \notin served
         /\ ~Running(m) => phase[m] \in {"down", "connecting", "waiting"}
         /\ subscribed[m] => phase[m] \in {"waiting", "up", "reconnecting"}
<1>1. conn[m] \in 0 .. MaxSessions /\ MaxSessions \in Nat /\ phase[m] \in Phases
  BY SessionAssumption DEF TypeOK
<1>2. 0 \notin Session /\ (conn[m] # 0 => conn[m] \in Session)
  BY <1>1 DEF Session
<1>3. BridgeOK(m)
  BY DEF PlaceOK
<1>4. ~Running(m) => phase[m] \in {"down", "connecting", "waiting"}
  BY <1>1 DEF Running, Phases
<1>5. QED
  BY <1>2, <1>3, <1>4 DEF BridgeOK

\* The broker and the network.
LEMMA BrokerTypes ==
  ASSUME TypeOK, PlaceOK, InboxOK, NEW i \in Session, BrokerStep(i)
  PROVE  TypeOK'
<1>1. CASE ReadsConnect(i)
  <2>1. Answers(i, <<Connack>>) /\ <<Connack>> \in Seq(Message)
    BY <1>1, Messages DEF ReadsConnect
  <2>2. Reads(i, "connect")
    BY <1>1 DEF ReadsConnect
  <2>3. QED
    BY <1>1, <2>1, <2>2, AnswersFacts, ReadsFacts DEF ReadsConnect, TypeOK, historyVars
<1>2. CASE ReadsSubscribe(i)
  <2> DEFINE told == IF record = Free THEN <<>> ELSE <<Publish(record)>>
  <2>1. Answers(i, told) /\ told \in Seq(Message)
    BY <1>2, Messages DEF ReadsSubscribe, TypeOK
  <2>2. Reads(i, "subscribe")
    BY <1>2 DEF ReadsSubscribe
  <2>3. subscribed' \in [Machine -> BOOLEAN]
    BY <1>2 DEF ReadsSubscribe, TypeOK
  <2> HIDE DEF told
  <2>4. QED
    BY <1>2, <2>1, <2>2, <2>3, AnswersFacts, ReadsFacts
    DEF ReadsSubscribe, TypeOK, historyVars
<1>3. CASE ReadsPublish(i)
  <2>1. Reads(i, "publish") /\ Retains(Head(inbox[i]).record)
    BY <1>3 DEF ReadsPublish
  <2>2. Head(inbox[i]).record \in Record
    BY <2>1, ReadsFacts, MessageFacts
  <2>3. silenced' \in [Session -> SUBSET Machine]
    BY <1>3, <2>2, SilencesFacts DEF ReadsPublish
  <2>4. QED
    BY <1>3, <2>1, <2>2, <2>3, RetainsFacts, ReadsFacts DEF ReadsPublish, TypeOK
<1>4. CASE ReadsDisconnect(i)
  <2>1. Reads(i, "disconnect")
    BY <1>4 DEF ReadsDisconnect
  <2>2. QED
    BY <1>4, <2>1, ReadsFacts DEF ReadsDisconnect, TypeOK, historyVars
<1>5. CASE MissesSession(i)
  <2>1. owner[i] \in Machine
    BY <1>5 DEF MissesSession, PlaceOK, Live
  <2>2. Offline(owner[i]) \in Record
    BY <2>1 DEF Record
  <2>3. record' \in Record /\ mail' \in [Machine -> Seq(Message)]
    BY <1>5, <2>2, RetainsFacts DEF MissesSession, TypeOK
  <2>4. silenced' \in [Session -> SUBSET Machine]
    BY <1>5, <2>2, SilencesFacts DEF MissesSession, TypeOK
  <2>5. QED
    BY <1>5, <2>3, <2>4 DEF MissesSession, TypeOK
<1>6. QED
  BY <1>1, <1>2, <1>3, <1>4, <1>5 DEF BrokerStep

LEMMA LosesTypes ==
  ASSUME TypeOK, PlaceOK, NEW i \in Session, LosesConnection(i) PROVE TypeOK'
<1>1. Breaks(i)
  BY DEF LosesConnection
<1>2. owner[i] \in Machine
  BY <1>1 DEF Breaks, PlaceOK, Live
<1>3. mail[owner[i]] \in Seq(Message)
  BY <1>2 DEF TypeOK
<1>4. mail' \in [Machine -> Seq(Message)]
  <2>1. CASE conn[owner[i]] = i
    <3>1. PICK rest \in Prefixes(mail[owner[i]]) : mail' = [mail EXCEPT ![owner[i]] = rest]
      BY <2>1 DEF LosesConnection
    <3>2. rest \in Seq(Message)
      BY <1>3, Losing
    <3>3. QED
      BY <3>1, <3>2 DEF TypeOK
  <2>2. CASE conn[owner[i]] # i
    BY <2>2 DEF LosesConnection, TypeOK
  <2>3. QED
    BY <2>1, <2>2
<1>5. QED
  BY <1>1, <1>4, BreaksFacts DEF LosesConnection, TypeOK, historyVars

LEMMA ClearsTypes == TypeOK /\ UserClears => TypeOK'
<1> SUFFICES ASSUME TypeOK, UserClears PROVE TypeOK'
  OBVIOUS
<1>1. Retains(Free) /\ Free \in Record
  BY RecordFacts DEF UserClears
<1>2. QED
  BY <1>1, RetainsFacts DEF UserClears, TypeOK, sessionVars, historyVars

LEMMA BridgeTypes ==
  ASSUME TypeOK, PlaceOK, NEW m \in Machine, BridgeStep(m)
  PROVE  TypeOK'
<1> USE DEF historyVars, sessionVars
<1>0. /\ {"down", "connecting", "waiting", "up", "lost", "reconnecting"} = Phases
      /\ <<>> \in Seq(Message) /\ 0 \in 0 .. MaxSessions
  BY SessionAssumption DEF Phases
<1>1. CASE Starts(m)
  <2>1. Opens(m)
    BY <1>1 DEF Starts
  <2>2. opened' \in 0 .. MaxSessions
    BY <2>1, OpensFacts, SessionAssumption DEF Session
  <2>3. QED
    BY <1>0, <1>1, <2>1, <2>2, OpensFacts DEF Starts, TypeOK
<1>2. CASE LooksAtRecord(m)
  <2>1. Sends(m, <<Subscribe>>) /\ <<Subscribe>> \in Seq(Message)
    BY <1>2, Messages DEF LooksAtRecord
  <2>2. Tail(mail[m]) \in Seq(Message)
    BY <1>2 DEF LooksAtRecord, TypeOK
  <2>3. QED
    BY <1>0, <1>2, <2>1, <2>2, SendsFacts DEF LooksAtRecord, TypeOK
<1>3. CASE Resigns(m)
  <2>1. Sends(m, <<Disconnect>>) /\ <<Disconnect>> \in Seq(Message) /\ Ends(m)
    BY <1>3, Messages DEF Resigns
  <2>2. QED
    BY <1>3, <2>1, SendsFacts, EndsFacts DEF Resigns, TypeOK
<1>4. CASE Accepts(m) /\ phase[m] = "waiting"
  <2>1. Sends(m, <<Publish(Online(m, cfg[m]))>>)
    BY <1>4 DEF Accepts
  <2>2. conn[m] \in Session
    BY <1>4, Connected
  <2>3. (contended \/ Contends(m)) \in BOOLEAN
    BY DEF TypeOK
  <2>4. contended' \in BOOLEAN
    BY <1>4, <2>3 DEF Accepts
  <2>5. QED
    BY <1>0, <1>4, <2>1, <2>2, <2>4, MessagesSent, SendsFacts DEF Accepts, TypeOK
<1>5. CASE NoticesLoss(m)
  BY <1>0, <1>5 DEF NoticesLoss, TypeOK
<1>6. CASE Reconnects(m)
  <2>1. Opens(m)
    BY <1>6 DEF Reconnects
  <2>2. opened' \in 0 .. MaxSessions
    BY <2>1, OpensFacts, SessionAssumption DEF Session
  <2>3. QED
    BY <1>0, <1>6, <2>1, <2>2, OpensFacts DEF Reconnects, TypeOK
<1>7. CASE Resumes(m)
  <2>1. Sends(m, <<Publish(Online(m, cfg[m]))>>)
    BY <1>7 DEF Resumes
  <2>2. QED
    BY <1>0, <1>7, <2>1, MessagesSent, SendsFacts DEF Resumes, TypeOK
<1>8. ASSUME NEW c \in Cfg, SetsRenderCfg(m, c) PROVE TypeOK'
  <2>1. Sends(m, <<Publish(Online(m, c))>>)
    BY <1>8 DEF SetsRenderCfg
  <2>2. QED
    BY <1>8, <2>1, MessagesSent, SendsFacts DEF SetsRenderCfg, TypeOK
<1>9. CASE Stops(m)
  <2>1. Sends(m, <<Publish(Offline(m)), Disconnect>>) /\ Ends(m)
    BY <1>9 DEF Stops
  <2>2. QED
    BY <1>9, <2>1, MessagesSent, SendsFacts, EndsFacts DEF Stops, TypeOK
<1>10. CASE Crashes(m)
  <2>1. /\ inbox' \in [Session -> Seq(Message)] /\ cut' \in [Session -> BOOLEAN]
        /\ torn' \subseteq Session
    <3>1. CASE conn[m] = 0 \/ cut[conn[m]]
      BY <1>10, <3>1 DEF Crashes, TypeOK
    <3>2. CASE ~(conn[m] = 0 \/ cut[conn[m]])
      <4>1. conn[m] \in Session /\ Breaks(conn[m])
        BY <1>10, <3>2, SessionAssumption DEF Crashes, TypeOK, Session
      <4>2. QED
        BY <4>1, BreaksFacts
    <3>3. QED
      BY <3>1, <3>2
  <2>2. Ends(m)
    BY <1>10 DEF Crashes
  <2>3. QED
    BY <2>1, <2>2, EndsFacts DEF TypeOK
<1>11. QED
  BY <1>1, <1>2, <1>3, <1>4, <1>5, <1>6, <1>7, <1>8, <1>9, <1>10
  DEF BridgeStep, Inspects, WindowEnds, GivesUp

\* Steps that leave every bridge and its session where they are.
LEMMA PlaceKept ==
  ASSUME PlaceOK, UNCHANGED <<opened, owner, phase, conn, served>>,
         \A m \in Machine :
           subscribed'[m] => phase[m] \in {"waiting", "up", "reconnecting"},
         \A i \in Session : (Live(i)' => Live(i)) /\ (cut[i] => cut'[i]),
         \A i \in Session : Live(i) /\ ~Live(i)' =>
           cut'[i] \/ \A m \in Machine : conn[m] # i,
         TypeOK
  PROVE  PlaceOK'
<1>1. ASSUME NEW m \in Machine PROVE BridgeOK(m)'
  <2>1. conn[m] # 0 => Live(conn[m])' \/ cut'[conn[m]]
    BY Connected
  <2>2. BridgeOK(m) /\ Running(m)' = Running(m)
    BY DEF PlaceOK, Running
  <2>3. QED
    BY <2>1, <2>2 DEF BridgeOK
<1>2. QED
  BY <1>1 DEF PlaceOK

\* Steps of others leave a bridge where it is.
LEMMA BridgeStays ==
  ASSUME TypeOK, PlaceOK, NEW n \in Machine,
         conn'[n] = conn[n], phase'[n] = phase[n],
         subscribed'[n] => subscribed[n],
         conn[n] # 0 =>
           /\ conn[n] <= opened'
           /\ owner'[conn[n]] = owner[conn[n]] /\ broker'[conn[n]] = broker[conn[n]]
           /\ cut[conn[n]] => cut'[conn[n]]
           /\ conn[n] \in served' <=> conn[n] \in served
  PROVE  BridgeOK(n)'
BY DEF PlaceOK, BridgeOK, Live, Running

LEMMA BrokerPlace ==
  ASSUME TypeOK, PlaceOK, InboxOK, ClaimOK, NEW i \in Session, BrokerStep(i)
  PROVE  PlaceOK'
<1> USE DEF historyVars
<1>k. ASSUME UNCHANGED subscribed
      PROVE  \A m \in Machine :
               subscribed'[m] => phase[m] \in {"waiting", "up", "reconnecting"}
  BY <1>k DEF PlaceOK, BridgeOK
<1>0. ASSUME NEW op, Reads(i, op)
      PROVE  Live(i) /\ UNCHANGED <<opened, owner, cut, phase, conn, served>>
  BY <1>0 DEF Reads, Live
<1>1. CASE ReadsConnect(i)
  <2>1. \A j \in Session : Live(j)' = Live(j)
    BY <1>0, <1>1 DEF ReadsConnect, Live, TypeOK
  <2>2. QED
    BY <1>0, <1>1, <1>k, <2>1, PlaceKept DEF ReadsConnect
<1>2. CASE ReadsSubscribe(i)
  <2>1. \A j \in Session : Live(j)' = Live(j)
    BY <1>2 DEF ReadsSubscribe, Live
  <2>2. Reads(i, "subscribe") /\ Head(inbox[i]) = Subscribe
    BY <1>2, ReadsFacts, MessageFacts DEF ReadsSubscribe
  <2>3. ASSUME NEW m \in Machine, subscribed'[m]
        PROVE  phase[m] \in {"waiting", "up", "reconnecting"}
    <3>1. subscribed[m] \/ (conn[m] = i /\ ~cut[i])
      BY <1>2, <2>3 DEF ReadsSubscribe, TypeOK
    <3>2. CASE conn[m] = i /\ ~cut[i] /\ phase[m] = "connecting"
      <4>1. inbox[i] \in {<<Connect>>, <<>>}
        BY <3>2 DEF ClaimOK, ClaimingOK
      <4>2. inbox[i] # <<>>
        BY <2>2, ReadsFacts
      <4>3. QED
        BY <2>2, <4>1, <4>2, Messages
    <3>3. phase[m] \in Phases
      BY DEF TypeOK
    <3>4. QED
      BY <1>0, <2>2, <3>1, <3>2, <3>3, Connected DEF Phases
  <2>4. QED
    BY <1>0, <1>2, <2>1, <2>2, <2>3, PlaceKept DEF ReadsSubscribe
<1>3. CASE ReadsPublish(i)
  BY <1>0, <1>3, <1>k, PlaceKept DEF ReadsPublish, Live
<1>4. CASE ReadsDisconnect(i)
  <2>1. Reads(i, "disconnect") /\ Head(inbox[i]) = Disconnect
    BY <1>4, ReadsFacts, MessageFacts DEF ReadsDisconnect
  <2>2. conn[owner[i]] # i
    <3>1. SessionOK(i) /\ inbox[i] # <<>> /\ inbox[i] \in Seq(Message)
      BY <2>1, <1>0, ReadsFacts DEF InboxOK
    <3>2. Leaves(inbox[i])
      BY <2>1, <3>1, Reading DEF SessionOK
    <3>3. QED
      BY <3>1, <3>2 DEF SessionOK
  <2>3. \A m \in Machine : conn[m] # i
    BY <2>2, Connected DEF Session
  <2>4. \A j \in Session : Live(j)' = (Live(j) /\ j # i)
    BY <1>4 DEF ReadsDisconnect, Live, TypeOK
  <2>5. QED
    BY <1>0, <1>4, <1>k, <2>1, <2>3, <2>4, PlaceKept DEF ReadsDisconnect
<1>5. CASE MissesSession(i)
  <2>1. \A j \in Session : Live(j)' = (Live(j) /\ j # i)
    BY <1>5 DEF MissesSession, Live, TypeOK
  <2>2. QED
    BY <1>5, <1>k, <2>1, PlaceKept DEF MissesSession
<1>6. QED
  BY <1>1, <1>2, <1>3, <1>4, <1>5 DEF BrokerStep

LEMMA OtherPlace ==
  ASSUME TypeOK, PlaceOK,
         UserClears \/ \E i \in Session : LosesConnection(i)
  PROVE  PlaceOK'
<1> USE DEF historyVars, sessionVars
<1>k. ASSUME UNCHANGED subscribed
      PROVE  \A m \in Machine :
               subscribed'[m] => phase[m] \in {"waiting", "up", "reconnecting"}
  BY <1>k DEF PlaceOK, BridgeOK
<1>1. CASE UserClears
  BY <1>1, <1>k, PlaceKept DEF UserClears, Live
<1>2. ASSUME NEW i \in Session, LosesConnection(i) PROVE PlaceOK'
  <2>1. Breaks(i)
    BY <1>2 DEF LosesConnection
  <2>2. \A j \in Session : cut[j] => cut'[j]
    BY <2>1, BreaksFacts
  <2>3. QED
    BY <1>2, <1>k, <2>2, PlaceKept DEF LosesConnection, Live
<1>3. QED
  BY <1>1, <1>2

\* Steps of a bridge.  It goes, stays, or has a new session.
LEMMA BridgePlace ==
  ASSUME TypeOK, PlaceOK, NEW m \in Machine, BridgeStep(m)
  PROVE  PlaceOK'
<1> USE DEF historyVars, sessionVars
<1>1. ASSUME Ends(m), \A i \in Session : cut[i] => cut'[i]
      PROVE  PlaceOK'
  <2>1. UNCHANGED <<opened, owner, broker, served>>
    BY <1>1 DEF Ends
  <2>2. ASSUME NEW n \in Machine PROVE BridgeOK(n)'
    <3>1. CASE n = m
      BY <1>1, <3>1, EndsFacts DEF BridgeOK
    <3>2. CASE n # m
      <4>1. /\ conn'[n] = conn[n] /\ phase'[n] = phase[n]
            /\ subscribed'[n] = subscribed[n]
        BY <1>1, <3>2, EndsFacts
      <4>2. conn[n] # 0 => /\ conn[n] \in Session /\ conn[n] <= opened
                           /\ cut[conn[n]] => cut'[conn[n]]
        BY <1>1, Connected
      <4>3. QED
        BY <2>1, <4>1, <4>2, BridgeStays
    <3>3. QED
      BY <3>1, <3>2
  <2>3. QED
    BY <2>1, <2>2 DEF PlaceOK, Live
<1>2. CASE Resigns(m)
  BY <1>1, <1>2 DEF Resigns
<1>3. CASE Stops(m)
  BY <1>1, <1>3 DEF Stops
<1>4. CASE Crashes(m)
  <2>1. \A i \in Session : cut[i] => cut'[i]
    <3>1. CASE conn[m] = 0 \/ cut[conn[m]]
      BY <1>4, <3>1 DEF Crashes
    <3>2. CASE ~(conn[m] = 0 \/ cut[conn[m]])
      BY <1>4, <3>2, BreaksFacts, Connected DEF Crashes
    <3>3. QED
      BY <3>1, <3>2
  <2>2. QED
    BY <1>1, <1>4, <2>1 DEF Crashes
<1>5. ASSUME Opens(m), phase[m] \in {"down", "lost"},
             \/ phase[m] = "down" /\ phase' = [phase EXCEPT ![m] = "connecting"]
                /\ served' = served
             \/ phase[m] = "lost" /\ phase' = [phase EXCEPT ![m] = "reconnecting"]
                /\ served' = served \cup {opened'},
             subscribed' = subscribed
      PROVE  PlaceOK'
  <2>1. /\ opened' = opened + 1 /\ opened \in Nat /\ opened' \in Session
        /\ 0 \notin Session /\ cut' = cut
    BY <1>5, OpensFacts, SessionAssumption DEF TypeOK, Session
  <2>2. ~subscribed[m]
    BY <1>5, Connected
  <2>3. opened' \notin served
    BY <2>1 DEF PlaceOK
  <2>4. ASSUME NEW n \in Machine PROVE BridgeOK(n)'
    <3>1. CASE n = m
      <4>1. phase'[n] = IF phase[m] = "down" THEN "connecting" ELSE "reconnecting"
        BY <1>5, <3>1 DEF TypeOK
      <4>2. conn'[n] = opened' /\ owner'[opened'] = n /\ broker'[opened'] = "new"
        BY <1>5, <3>1, OpensFacts
      <4>3. opened' \in served' <=> Running(n)'
        BY <1>5, <2>3, <4>1 DEF Running
      <4>4. opened' # 0 /\ opened' <= opened'
        BY <2>1
      <4>5. ~subscribed'[n] /\ phase'[n] \notin {"down", "lost"}
        BY <1>5, <2>2, <3>1, <4>1
      <4>6. QED
        BY <4>2, <4>3, <4>4, <4>5 DEF BridgeOK, Live
    <3>2. CASE n # m
      <4>1. phase'[n] = phase[n] /\ conn'[n] = conn[n]
        BY <1>5, <3>2, OpensFacts DEF TypeOK
      <4>2. conn[n] # 0 => /\ conn[n] \in Session /\ conn[n] <= opened
                           /\ conn[n] # opened' /\ conn[n] <= opened'
        BY <2>1, Connected DEF Session
      <4>3. conn[n] # 0 =>
              /\ owner'[conn[n]] = owner[conn[n]]
              /\ broker'[conn[n]] = broker[conn[n]]
        BY <1>5, <4>2, OpensFacts
      <4>4. conn[n] # 0 => (conn[n] \in served' <=> conn[n] \in served)
        BY <1>5, <4>2
      <4>5. QED
        BY <1>5, <2>1, <4>1, <4>2, <4>3, <4>4, BridgeStays
    <3>3. QED
      BY <3>1, <3>2
  <2>5. ASSUME NEW i \in Session
        PROVE  /\ i <= opened' => owner'[i] \in Machine
               /\ Live(i)' \/ i \in served' => i <= opened'
    <3>1. CASE i = opened'
      BY <1>5, <2>1, <3>1, OpensFacts
    <3>2. CASE i # opened'
      <4>1. owner'[i] = owner[i] /\ Live(i)' = Live(i)
        BY <1>5, <3>2, OpensFacts DEF Live
      <4>2. i \in served' => i \in served
        BY <1>5, <3>2
      <4>3. QED
        BY <2>1, <3>2, <4>1, <4>2 DEF PlaceOK, Session
    <3>3. QED
      BY <3>1, <3>2
  <2>6. QED
    BY <2>4, <2>5 DEF PlaceOK
<1>6. CASE Starts(m)
  BY <1>5, <1>6 DEF Starts
<1>7. CASE Reconnects(m)
  BY <1>5, <1>7 DEF Reconnects
\* The bridge keeps its session, notices that it is lost, or has it claimed.
<1>8. ASSUME UNCHANGED <<opened, owner, broker, cut>>,
             \A n \in Machine : n # m => phase'[n] = phase[n] /\ conn'[n] = conn[n],
             \A n \in Machine : subscribed'[n] => subscribed[n],
             served \subseteq served', served' \subseteq served \cup {conn[m]},
             conn[m] = 0 => served' = served,
             BridgeOK(m)'
      PROVE  PlaceOK'
  <2>1. ASSUME NEW n \in Machine PROVE BridgeOK(n)'
    <3>1. CASE n # m
      <4>1. conn[n] # 0 => conn[n] # conn[m] /\ conn[n] <= opened
        BY <3>1, Connected
      <4>2. conn[n] # 0 => (conn[n] \in served' <=> conn[n] \in served)
        BY <1>8, <4>1
      <4>3. QED
        BY <1>8, <3>1, <4>1, <4>2, BridgeStays
    <3>2. QED
      BY <1>8, <3>1
  <2>2. \A i \in Session : i \in served' => i <= opened
    BY <1>8, Connected DEF PlaceOK
  <2>3. QED
    BY <1>8, <2>1, <2>2 DEF PlaceOK, Live
<1>9. BridgeOK(m)
  BY DEF PlaceOK
<1>10. CASE NoticesLoss(m)
  <2>1. BridgeOK(m)'
    BY <1>10 DEF NoticesLoss, BridgeOK, TypeOK
  <2>2. QED
    BY <1>8, <1>10, <2>1 DEF NoticesLoss, TypeOK
<1>11. CASE LooksAtRecord(m)
  <2>1. BridgeOK(m)'
    BY <1>9, <1>11 DEF LooksAtRecord, BridgeOK, TypeOK, Running, Live
  <2>2. QED
    BY <1>8, <1>11, <2>1 DEF LooksAtRecord, TypeOK
<1>12. CASE Accepts(m) /\ phase[m] = "waiting"
  <2>1. BridgeOK(m)'
    BY <1>9, <1>12 DEF Accepts, BridgeOK, TypeOK, Running, Live
  <2>2. conn[m] # 0
    BY <1>12, Connected
  <2>3. QED
    BY <1>8, <1>12, <2>1, <2>2 DEF Accepts, TypeOK
<1>13. CASE Resumes(m)
  <2>1. BridgeOK(m)'
    BY <1>9, <1>13 DEF Resumes, BridgeOK, TypeOK, Running, Live
  <2>2. QED
    BY <1>8, <1>13, <2>1 DEF Resumes, TypeOK
<1>14. ASSUME NEW c \in Cfg, SetsRenderCfg(m, c) PROVE PlaceOK'
  <2>1. BridgeOK(m)'
    BY <1>9, <1>14 DEF SetsRenderCfg, BridgeOK, TypeOK, Running, Live
  <2>2. QED
    BY <1>8, <1>14, <2>1 DEF SetsRenderCfg, TypeOK
<1>15. QED
  BY <1>2, <1>3, <1>4, <1>6, <1>7, <1>10, <1>11, <1>12, <1>13, <1>14
  DEF BridgeStep, Inspects, WindowEnds, GivesUp

-----------------------------------------------------------------------------
(* What is under way on each connection. *)

LEMMA PublishesMore ==
  \A s, R, Q : R \subseteq Q /\ Publishes(s, R) => Publishes(s, Q)
BY DEF Publishes

\* A session nothing happens to, though its bridge may have claimed it now.
LEMMA SessionStays ==
  ASSUME NEW i \in Session, SessionOK(i),
         inbox'[i] = inbox[i], broker'[i] = broker[i], owner'[i] = owner[i],
         cut[i] => cut'[i], served \subseteq served',
         conn'[owner[i]] = i <=> conn[owner[i]] = i
  PROVE  SessionOK(i)'
<1>1. Publishes(inbox[i], IF i \in served' THEN Of(owner[i]) ELSE {})
  BY PublishesMore DEF SessionOK
<1>2. QED
  BY <1>1 DEF SessionOK, Of

LEMMA ReadsSession ==
  ASSUME TypeOK, NEW i \in Session, NEW op, Reads(i, op), SessionOK(i),
         broker'[i] # "new", op # "disconnect"
  PROVE  SessionOK(i)'
<1>1. /\ inbox[i] # <<>> /\ Head(inbox[i]).op = op /\ inbox[i] \in Seq(Message)
      /\ inbox'[i] = Tail(inbox[i])
      /\ UNCHANGED <<owner, cut, conn, served>>
  BY ReadsFacts DEF historyVars
<1>2. Head(inbox[i]) # Disconnect
  BY <1>1, Messages
<1>3. Publishes(Tail(inbox[i]), IF i \in served THEN Of(owner[i]) ELSE {})
  BY <1>1, Reading DEF SessionOK
<1>4. /\ EndsOnce(Tail(inbox[i]))
      /\ Leaves(Tail(inbox[i])) => Leaves(inbox[i])
      /\ Leaves(inbox[i]) => Leaves(Tail(inbox[i]))
  BY <1>1, <1>2, Reading DEF SessionOK
<1>5. QED
  BY <1>1, <1>3, <1>4 DEF SessionOK, Of

LEMMA BreaksSession ==
  ASSUME TypeOK, NEW i \in Session, Breaks(i), SessionOK(i),
         UNCHANGED <<broker, owner, served>>,
         conn'[owner[i]] = i => conn[owner[i]] = i
  PROVE  SessionOK(i)'
<1>1. cut'[i] /\ inbox'[i] \in Prefixes(inbox[i]) /\ inbox[i] \in Seq(Message)
  BY BreaksFacts DEF TypeOK
<1>2. /\ Publishes(inbox'[i], IF i \in served THEN Of(owner[i]) ELSE {})
      /\ EndsOnce(inbox'[i])
      /\ Leaves(inbox'[i]) => Leaves(inbox[i])
      /\ inbox'[i] # <<>> => inbox[i] # <<>> /\ Head(inbox'[i]) = Head(inbox[i])
  BY <1>1, Losing DEF SessionOK
<1>3. QED
  BY <1>1, <1>2 DEF SessionOK, Of

\* A bridge says something on its session, or nothing if that is cut.
LEMMA SendsSession ==
  ASSUME TypeOK, PlaceOK, NEW m \in Machine, NEW x \in Message, Sends(m, <<x>>),
         NEW i \in Session, i = conn[m], SessionOK(i),
         x # Disconnect, x.op = "publish" => i \in served' /\ x.record \in Of(m),
         UNCHANGED <<owner, broker, cut, conn>>, served \subseteq served'
  PROVE  SessionOK(i)'
<1>1. owner[i] = m /\ inbox[i] \in Seq(Message) /\ <<x>> \in Seq(Message)
  BY Connected DEF TypeOK
<1>2. CASE cut[i]
  <2>1. inbox'[i] = inbox[i]
    BY <1>1, <1>2, SendsFacts
  <2>2. QED
    BY <2>1, SessionStays
<1>3. CASE ~cut[i]
  <2>1. inbox'[i] = inbox[i] \o <<x>>
    BY <1>1, <1>3, SendsFacts
  <2>2. Publishes(inbox[i], IF i \in served' THEN Of(m) ELSE {})
    BY <1>1, PublishesMore DEF SessionOK
  <2>3. Publishes(inbox'[i], IF i \in served' THEN Of(m) ELSE {})
    BY <1>1, <2>1, <2>2, Sending
  <2>4. /\ EndsOnce(inbox'[i]) /\ ~Leaves(inbox'[i]) /\ inbox'[i] # <<>>
        /\ inbox[i] # <<>> => Head(inbox'[i]) = Head(inbox[i])
    BY <1>1, <2>1, Sending DEF SessionOK, Leaves
  <2>5. QED
    BY <1>1, <1>3, <2>3, <2>4 DEF SessionOK, Of
<1>4. QED
  BY <1>2, <1>3

\* It says goodbye, and has no session any more.
LEMMA GoodbyeSession ==
  ASSUME TypeOK, PlaceOK, NEW m \in Machine, NEW i \in Session, i = conn[m],
         SessionOK(i), conn'[m] = 0,
         UNCHANGED <<owner, broker, cut, served>>,
         \/ ~cut[i] /\ inbox'[i] = inbox[i] \o <<Disconnect>>
         \/ ~cut[i] /\ i \in served
            /\ inbox'[i] = inbox[i] \o <<Publish(Offline(m)), Disconnect>>
         \/ cut[i] /\ inbox'[i] = inbox[i]
  PROVE  SessionOK(i)'
<1>1. owner[i] = m /\ inbox[i] \in Seq(Message) /\ i # 0
  BY Connected DEF TypeOK
<1> DEFINE R == IF i \in served THEN Of(m) ELSE {}
<1>2. Of(owner[i])' = Of(m) /\ Of(owner[i]) = Of(m) /\ conn'[owner'[i]] # i
  BY <1>1 DEF Of
<1>3. Publishes(inbox[i], R) /\ EndsOnce(inbox[i]) /\ ~Leaves(inbox[i])
  BY <1>1 DEF SessionOK
<1> HIDE DEF R
<1>4. ASSUME ~cut[i], NEW s \in Seq(Message), inbox'[i] = s \o <<Disconnect>>,
             Publishes(s, R), EndsOnce(s), ~Leaves(s),
             inbox[i] # <<>> => s # <<>> /\ Head(s) = Head(inbox[i])
      PROVE  SessionOK(i)'
  <2>1. /\ Publishes(inbox'[i], R)
        /\ EndsOnce(inbox'[i]) /\ Leaves(inbox'[i]) /\ inbox'[i] # <<>>
        /\ s # <<>> => Head(inbox'[i]) = Head(s)
    <3>1. Disconnect \in Message /\ Disconnect.op # "publish"
      BY Messages
    <3>2. /\ inbox'[i] # <<>> /\ inbox'[i][Len(inbox'[i])] = Disconnect
          /\ s # <<>> => Head(inbox'[i]) = Head(s)
      BY <1>4, <3>1, Sending
    <3>3. Publishes(inbox'[i], R)
      BY <1>4, <3>1, Sending
    <3>4. EndsOnce(inbox'[i])
      BY <1>4, <3>1, Sending
    <3>5. QED
      BY <3>2, <3>3, <3>4 DEF Leaves
  <2>2. broker[i] = "new" => inbox'[i] # <<>> /\ Head(inbox'[i]) = Connect
    BY <1>4, <2>1 DEF SessionOK
  <2>3. QED
    BY <1>2, <2>1, <2>2 DEF SessionOK, R
<1>5. CASE ~cut[i] /\ inbox'[i] = inbox[i] \o <<Disconnect>>
  BY <1>1, <1>4, <1>3, <1>5
<1>6. CASE ~cut[i] /\ i \in served
           /\ inbox'[i] = inbox[i] \o <<Publish(Offline(m)), Disconnect>>
  <2> DEFINE x == Publish(Offline(m))
             s == inbox[i] \o <<x>>
  <2>1. x \in Message /\ x.op = "publish" /\ x.record \in R /\ x # Disconnect
    <3>1. Offline(m) \in Record /\ Offline(m) \in Of(m)
      BY RecordFacts
    <3>2. QED
      BY <1>6, <3>1, Messages DEF R
  <2>2. inbox[i] \o <<x, Disconnect>> = s \o <<Disconnect>>
    BY <1>1, <2>1, Farewell
  <2>3. /\ s \in Seq(Message) /\ Publishes(s, R) /\ EndsOnce(s) /\ ~Leaves(s)
        /\ s # <<>> /\ (inbox[i] # <<>> => Head(s) = Head(inbox[i]))
    BY <1>1, <1>3, <2>1, Sending DEF Leaves
  <2> HIDE DEF s
  <2>4. QED
    BY <1>4, <1>6, <2>2, <2>3
<1>7. CASE cut[i] /\ inbox'[i] = inbox[i]
  BY <1>2, <1>3, <1>7 DEF SessionOK, R
<1>8. QED
  BY <1>5, <1>6, <1>7

\* A bridge's step leaves the sessions alone that are not its own.
LEMMA OthersStay ==
  ASSUME TypeOK, PlaceOK, InboxOK, NEW m \in Machine,
         NEW j \in Session, Live(j), j # conn[m], conn'[m] # j,
         inbox'[j] = inbox[j], broker'[j] = broker[j], owner'[j] = owner[j],
         cut[j] => cut'[j], served \subseteq served',
         \A n \in Machine : n # m => conn'[n] = conn[n]
  PROVE  SessionOK(j)'
<1>1. owner[j] \in Machine
  BY DEF PlaceOK
<1>2. conn'[owner[j]] = j <=> conn[owner[j]] = j
  BY <1>1
<1>3. QED
  BY <1>2, SessionStays DEF InboxOK

LEMMA BrokerInbox ==
  ASSUME TypeOK, PlaceOK, InboxOK, NEW i \in Session, BrokerStep(i)
  PROVE  InboxOK'
<1> SUFFICES ASSUME NEW j \in Session, Live(j)' PROVE SessionOK(j)'
  BY DEF InboxOK
<1> USE DEF historyVars
<1>1. ASSUME j # i, NEW op, Reads(i, op),
             broker' = broker \/ \E b : broker' = [broker EXCEPT ![i] = b]
      PROVE  SessionOK(j)'
  <2>1. broker'[j] = broker[j]
    BY <1>1 DEF TypeOK
  <2>2. Live(j) /\ SessionOK(j)
    BY <2>1 DEF InboxOK, Live
  <2>3. QED
    BY <1>1, <2>1, <2>2, ReadsFacts, SessionStays
<1>2. ASSUME j = i, NEW op, Reads(i, op), op # "disconnect", broker'[i] # "new"
      PROVE  SessionOK(j)'
  <2>1. SessionOK(i)
    BY <1>2, ReadsFacts DEF InboxOK
  <2>2. QED
    BY <1>2, <2>1, ReadsSession
<1>3. ASSUME NEW op, Reads(i, op), op # "connect" PROVE broker[i] # "new"
  <2>1. Live(i) /\ inbox[i] # <<>> /\ Head(inbox[i]).op = op /\ SessionOK(i)
    BY <1>3, ReadsFacts DEF InboxOK
  <2>2. QED
    BY <1>3, <2>1, Messages DEF SessionOK
<1>4. CASE ReadsConnect(i)
  <2>1. broker' = [broker EXCEPT ![i] = "open"] /\ broker'[i] = "open"
    BY <1>4 DEF ReadsConnect, TypeOK
  <2>2. QED
    BY <1>1, <1>2, <1>4, <2>1 DEF ReadsConnect
<1>5. CASE ReadsSubscribe(i)
  BY <1>1, <1>2, <1>3, <1>5 DEF ReadsSubscribe
<1>6. CASE ReadsPublish(i)
  BY <1>1, <1>2, <1>3, <1>6 DEF ReadsPublish
<1>7. CASE ReadsDisconnect(i)
  <2>1. broker' = [broker EXCEPT ![i] = "closed"] /\ broker'[i] = "closed"
    BY <1>7 DEF ReadsDisconnect, TypeOK
  <2>2. j # i
    BY <2>1 DEF Live
  <2>3. QED
    BY <1>1, <1>7, <2>1, <2>2 DEF ReadsDisconnect
<1>8. CASE MissesSession(i)
  <2>1. broker' = [broker EXCEPT ![i] = "closed"] /\ broker'[i] = "closed"
    BY <1>8 DEF MissesSession, TypeOK
  <2>2. j # i /\ broker'[j] = broker[j]
    BY <2>1 DEF Live, TypeOK
  <2>3. SessionOK(j)
    BY <2>2 DEF InboxOK, Live
  <2>4. QED
    BY <1>8, <2>2, <2>3, SessionStays DEF MissesSession
<1>9. QED
  BY <1>4, <1>5, <1>6, <1>7, <1>8 DEF BrokerStep

LEMMA LosesInbox ==
  ASSUME TypeOK, PlaceOK, InboxOK, NEW i \in Session, LosesConnection(i)
  PROVE  InboxOK'
<1> SUFFICES ASSUME NEW j \in Session, Live(j)' PROVE SessionOK(j)'
  BY DEF InboxOK
<1>1. /\ Breaks(i) /\ UNCHANGED <<broker, owner, served, conn>>
      /\ Live(j) /\ SessionOK(j)
  BY DEF LosesConnection, historyVars, InboxOK, Live
<1>2. CASE j = i
  BY <1>1, <1>2, BreaksSession
<1>3. CASE j # i
  BY <1>1, <1>3, BreaksFacts, SessionStays
<1>4. QED
  BY <1>2, <1>3

LEMMA ClearsInbox == InboxOK /\ UserClears => InboxOK'
BY DEF UserClears, InboxOK, SessionOK, sessionVars, historyVars, Live, Of

LEMMA BridgeInbox ==
  ASSUME TypeOK, PlaceOK, InboxOK, NEW m \in Machine, BridgeStep(m)
  PROVE  InboxOK'
<1> SUFFICES ASSUME NEW j \in Session, Live(j)' PROVE SessionOK(j)'
  BY DEF InboxOK
<1> USE DEF historyVars, sessionVars
<1>0. j # 0
  BY DEF Session
\* The session that is opened.
<1>1. ASSUME Opens(m), conn[m] = 0, served \subseteq served',
             opened' \in served' => Publishes(<<Connect>>, Of(m))
      PROVE  SessionOK(j)'
  <2>1. CASE j = opened'
    <3>1. /\ inbox'[j] = <<Connect>> /\ owner'[j] = m /\ conn'[m] = j
          /\ broker'[j] = "new"
      BY <1>1, <2>1, OpensFacts
    <3>2. \A R : Publishes(<<Connect>>, R)
      BY Messages DEF Publishes
    <3>3. EndsOnce(<<Connect>>) /\ ~Leaves(<<Connect>>) /\ <<Connect>> # <<>>
      BY Messages DEF EndsOnce, Leaves
    <3>4. QED
      BY <3>1, <3>2, <3>3 DEF SessionOK
  <2>2. CASE j # opened'
    <3>1. /\ inbox'[j] = inbox[j] /\ owner'[j] = owner[j] /\ broker'[j] = broker[j]
          /\ cut' = cut /\ conn'[m] # j
          /\ \A n \in Machine : n # m => conn'[n] = conn[n]
      BY <1>1, <2>2, OpensFacts
    <3>2. Live(j)
      BY <3>1 DEF Live
    <3>3. QED
      BY <1>0, <1>1, <3>1, <3>2, OthersStay
  <2>3. QED
    BY <2>1, <2>2
<1>2. \A R : Publishes(<<Connect>>, R)
  BY Messages DEF Publishes
<1>3. CASE Starts(m)
  BY <1>1, <1>2, <1>3, Connected DEF Starts
<1>4. CASE Reconnects(m)
  BY <1>1, <1>2, <1>4, Connected DEF Reconnects
\* One message is sent.
<1>5. ASSUME NEW x \in Message, Sends(m, <<x>>), x # Disconnect,
             x.op = "publish" => conn[m] \in served' /\ x.record \in Of(m),
             UNCHANGED <<owner, broker, cut, conn>>, served \subseteq served'
      PROVE  SessionOK(j)'
  <2>1. Live(j) /\ SessionOK(j) /\ <<x>> \in Seq(Message)
    BY <1>5 DEF Live, InboxOK
  <2>2. CASE j = conn[m]
    BY <1>5, <2>1, <2>2, SendsSession
  <2>3. CASE j # conn[m]
    <3>1. inbox'[j] = inbox[j]
      BY <1>5, <2>1, <2>3, SendsFacts
    <3>2. QED
      BY <1>5, <2>1, <2>3, <3>1, OthersStay
  <2>4. QED
    BY <2>2, <2>3
<1>6. CASE LooksAtRecord(m)
  BY <1>5, <1>6, Messages DEF LooksAtRecord
<1>7. ASSUME NEW c \in Cfg \cup {NoCfg}
      PROVE  LET x == Publish(Online(m, c)) IN
             /\ x \in Message /\ x # Disconnect /\ x.op = "publish"
             /\ x.record \in Of(m)
  <2>1. Online(m, c) \in Record /\ Online(m, c) \in Of(m)
    BY RecordFacts
  <2>2. QED
    BY <2>1, Messages
<1>8. cfg[m] \in Cfg \cup {NoCfg}
  BY DEF TypeOK
<1>9. CASE Accepts(m) /\ phase[m] = "waiting"
  <2>1. conn[m] \in served' /\ served \subseteq served'
    BY <1>9 DEF Accepts
  <2>2. QED
    BY <1>5, <1>7, <1>8, <1>9, <2>1 DEF Accepts
<1>10. Running(m) /\ conn[m] # 0 => conn[m] \in served
  BY Connected
<1>11. CASE Resumes(m)
  <2>1. conn[m] \in served
    BY <1>11, Connected DEF Resumes, Running
  <2>2. QED
    BY <1>5, <1>7, <1>8, <1>11, <2>1 DEF Resumes
<1>12. ASSUME NEW c \in Cfg, SetsRenderCfg(m, c) PROVE SessionOK(j)'
  <2>1. CASE conn[m] # 0
    BY <1>5, <1>7, <1>10, <1>12, <2>1 DEF SetsRenderCfg
  <2>2. CASE conn[m] = 0
    <3>1. inbox' = inbox
      BY <1>12, <2>2 DEF SetsRenderCfg, Sends
    <3>2. QED
      BY <1>0, <1>12, <2>2, <3>1, OthersStay DEF SetsRenderCfg, Live
  <2>3. QED
    BY <2>1, <2>2
\* The bridge goes.
<1>13. CASE NoticesLoss(m)
  <2>1. Live(j) /\ SessionOK(j)
    BY <1>13 DEF NoticesLoss, Live, InboxOK
  <2>2. CASE j = conn[m]
    <3>1. owner[j] = m /\ cut[j]
      BY <1>13, <2>2, Connected DEF NoticesLoss
    <3>2. conn'[m] = 0
      BY <1>13 DEF NoticesLoss, TypeOK
    <3>3. QED
      BY <1>0, <1>13, <2>1, <3>1, <3>2 DEF NoticesLoss, SessionOK, Of
  <2>3. CASE j # conn[m]
    <3>1. conn'[m] = 0 /\ \A n \in Machine : n # m => conn'[n] = conn[n]
      BY <1>13 DEF NoticesLoss, TypeOK
    <3>2. QED
      BY <1>0, <1>13, <2>1, <2>3, <3>1, OthersStay DEF NoticesLoss
  <2>4. QED
    BY <2>2, <2>3
<1>14. ASSUME Ends(m), cut' = cut, NEW s \in Seq(Message), Sends(m, s),
              \/ s = <<Disconnect>>
              \/ Running(m) /\ s = <<Publish(Offline(m)), Disconnect>>
       PROVE  SessionOK(j)'
  <2>1. /\ conn'[m] = 0 /\ \A n \in Machine : n # m => conn'[n] = conn[n]
        /\ UNCHANGED <<owner, broker, served>>
    BY <1>14, EndsFacts
  <2>2. Live(j) /\ SessionOK(j)
    BY <2>1 DEF Live, InboxOK
  <2>3. CASE j = conn[m]
    <3>1. inbox'[j] = IF ~cut[j] THEN inbox[j] \o s ELSE inbox[j]
      BY <1>14, <2>3, SendsFacts
    <3>2. Running(m) => j \in served
      BY <1>0, <1>10, <2>3
    <3>3. QED
      BY <1>14, <2>1, <2>2, <2>3, <3>1, <3>2, GoodbyeSession
  <2>4. CASE j # conn[m]
    <3>1. inbox'[j] = inbox[j]
      BY <1>14, <2>4, SendsFacts
    <3>2. QED
      BY <1>0, <1>14, <2>1, <2>2, <2>4, <3>1, OthersStay
  <2>5. QED
    BY <2>3, <2>4
<1>15. CASE Resigns(m)
  BY <1>14, <1>15, MessagesSent DEF Resigns
<1>16. CASE Stops(m)
  BY <1>14, <1>16, MessagesSent DEF Stops
<1>17. CASE Crashes(m)
  <2>1. /\ conn'[m] = 0 /\ \A n \in Machine : n # m => conn'[n] = conn[n]
        /\ UNCHANGED <<owner, broker, served>>
    BY <1>17, EndsFacts DEF Crashes
  <2>2. Live(j) /\ SessionOK(j)
    BY <2>1 DEF Live, InboxOK
  <2>3. CASE conn[m] = 0 \/ cut[conn[m]]
    <3>1. UNCHANGED <<cut, inbox>>
      BY <1>17, <2>3 DEF Crashes
    <3>2. CASE j = conn[m]
      <4>1. owner[j] = m /\ cut[j]
        BY <1>0, <2>3, <3>2, Connected
      <4>2. QED
        BY <1>0, <2>1, <2>2, <3>1, <4>1 DEF SessionOK, Of
    <3>3. CASE j # conn[m]
      BY <1>0, <2>1, <2>2, <3>1, <3>3, OthersStay
    <3>4. QED
      BY <3>2, <3>3
  <2>4. CASE ~(conn[m] = 0 \/ cut[conn[m]])
    <3>1. Breaks(conn[m]) /\ conn[m] \in Session /\ owner[conn[m]] = m
      BY <1>17, <2>4, Connected DEF Crashes
    <3>2. CASE j = conn[m]
      BY <1>0, <2>1, <2>2, <3>1, <3>2, BreaksSession
    <3>3. CASE j # conn[m]
      <4>1. inbox'[j] = inbox[j] /\ cut'[j] = cut[j]
        BY <3>1, <3>3, BreaksFacts
      <4>2. QED
        BY <1>0, <2>1, <2>2, <3>3, <4>1, OthersStay
    <3>4. QED
      BY <3>2, <3>3
  <2>5. QED
    BY <2>3, <2>4
<1>18. QED
  BY <1>3, <1>4, <1>6, <1>9, <1>11, <1>12, <1>13, <1>15, <1>16, <1>17
  DEF BridgeStep, Inspects, WindowEnds, GivesUp

-----------------------------------------------------------------------------
(* Claims. *)

\* Steps of others at most let m hear of a new record.
LEMMA ClaimStays ==
  ASSUME TypeOK, PlaceOK, NEW m \in Machine, ClaimingOK(m),
         conn'[m] = conn[m], phase'[m] = phase[m], subscribed'[m] = subscribed[m],
         ~subscribed[m] => mail'[m] = mail[m],
         conn[m] # 0 =>
           /\ broker'[conn[m]] = broker[conn[m]] /\ inbox'[conn[m]] = inbox[conn[m]]
           /\ cut[conn[m]] => cut'[conn[m]]
  PROVE  ClaimingOK(m)'
<1>1. /\ conn[m] = 0 => ~subscribed[m]
      /\ phase[m] = "connecting" => ~subscribed[m] /\ conn[m] # 0
      /\ phase[m] = "waiting" => conn[m] # 0
  BY DEF PlaceOK, BridgeOK
<1>2. QED
  BY <1>1 DEF ClaimingOK

LEMMA BrokerClaim ==
  ASSUME TypeOK, PlaceOK, InboxOK, NEW i \in Session, BrokerStep(i),
         NEW m \in Machine, ClaimingOK(m)
  PROVE  ClaimingOK(m)'
<1> USE DEF historyVars
<1>1. conn[m] = i => i # 0 /\ owner[i] = m
  BY Connected
<1>2. ASSUME NEW op, Reads(i, op)
      PROVE  /\ UNCHANGED <<conn, phase, cut>>
             /\ Head(inbox[i]).op = op /\ inbox[i] # <<>>
             /\ inbox'[i] = Tail(inbox[i])
             /\ conn[m] # i /\ conn[m] # 0 => inbox'[conn[m]] = inbox[conn[m]]
  BY <1>2, ReadsFacts, Connected
<1>3. CASE ReadsConnect(i)
  <2>1. Reads(i, "connect") /\ Answers(i, <<Connack>>) /\ <<Connack>> \in Seq(Message)
    BY <1>3, MessagesSent DEF ReadsConnect
  <2>2. mail'[m] = IF m = owner[i] /\ conn[m] = i /\ ~cut[i]
                   THEN mail[m] \o <<Connack>> ELSE mail[m]
    BY <2>1, AnswersFacts
  <2>3. broker' = [broker EXCEPT ![i] = "open"] /\ subscribed' = subscribed
    BY <1>3 DEF ReadsConnect
  <2>4. CASE conn[m] # i
    BY <1>2, <2>1, <2>2, <2>3, <2>4, ClaimStays, Connected DEF TypeOK
  <2>5. CASE conn[m] = i
    <3>1. ~cut[i] => inbox[i] # <<Subscribe>>
      BY <1>2, <2>1, Messages
    <3>2. phase[m] = "waiting" => cut[i]
      BY <1>2, <2>1, <2>5, <3>1 DEF ClaimingOK
    <3>3. phase[m] = "connecting" /\ ~cut[i] => inbox[i] = <<Connect>> /\ mail[m] = <<>>
      BY <1>2, <2>1, <2>5 DEF ClaimingOK
    <3>4. Tail(<<Connect>>) = <<>> /\ <<>> \o <<Connack>> = <<Connack>>
      OBVIOUS
    <3>5. broker'[i] = "open"
      BY <2>3 DEF TypeOK
    <3>6. QED
      BY <1>1, <1>2, <2>1, <2>2, <2>3, <2>5, <3>2, <3>3, <3>4, <3>5 DEF ClaimingOK
  <2>6. QED
    BY <2>4, <2>5
<1>4. CASE ReadsSubscribe(i)
  <2> DEFINE told == IF record = Free THEN <<>> ELSE <<Publish(record)>>
  <2>1. Reads(i, "subscribe") /\ Answers(i, told) /\ told \in Seq(Message)
    BY <1>4, Messages DEF ReadsSubscribe, TypeOK
  <2> HIDE DEF told
  <2>2. mail'[m] = IF m = owner[i] /\ conn[m] = i /\ ~cut[i]
                   THEN mail[m] \o told ELSE mail[m]
    BY <2>1, AnswersFacts
  <2>3. CASE conn[m] # i
    <3>1. broker' = broker /\ subscribed'[m] = subscribed[m]
      BY <1>4, <2>3 DEF ReadsSubscribe, TypeOK
    <3>2. QED
      BY <1>2, <2>1, <2>2, <2>3, <3>1, ClaimStays
  <2>4. CASE conn[m] = i
    <3>1. inbox[i] # <<Connect>>
      BY <1>2, <2>1, Messages
    <3>2. phase[m] = "connecting" => cut[i]
      BY <1>2, <2>1, <2>4, <3>1 DEF ClaimingOK
    <3>3. phase[m] = "waiting" /\ ~cut[i] => inbox[i] = <<Subscribe>>
      BY <1>2, <2>1, <2>4 DEF ClaimingOK
    <3>4. Tail(<<Subscribe>>) = <<>>
      OBVIOUS
    <3>5. broker' = broker /\ (~cut[i] => subscribed'[m])
      BY <1>1, <1>4, <2>4 DEF ReadsSubscribe, TypeOK
    <3>6. QED
      BY <1>1, <1>2, <2>1, <2>4, <3>2, <3>3, <3>4, <3>5 DEF ClaimingOK
  <2>5. QED
    BY <2>3, <2>4
<1>5. ASSUME conn[m] = i, phase[m] \in {"connecting", "waiting"}, ~cut[i],
             NEW op, Reads(i, op), op \in {"publish", "disconnect"}
      PROVE  FALSE
  <2>1. inbox[i] \in {<<>>, <<Connect>>, <<Subscribe>>}
    BY <1>5 DEF ClaimingOK
  <2>2. QED
    BY <1>2, <1>5, <2>1, Messages
<1>6. ASSUME Reads(i, "publish") \/ Reads(i, "disconnect"), conn[m] = i,
             UNCHANGED <<conn, phase, cut>>
      PROVE  ClaimingOK(m)'
  BY <1>1, <1>5, <1>6 DEF ClaimingOK
<1>7. CASE ReadsPublish(i)
  <2>1. Reads(i, "publish") /\ Retains(Head(inbox[i]).record)
    BY <1>7 DEF ReadsPublish
  <2>2. Head(inbox[i]).record \in Record
    BY <2>1, ReadsFacts, MessageFacts
  <2>3. ~subscribed[m] => mail'[m] = mail[m]
    BY <2>1, <2>2, RetainsFacts
  <2>4. CASE conn[m] # i
    BY <1>2, <1>7, <2>1, <2>3, <2>4, ClaimStays DEF ReadsPublish
  <2>5. QED
    BY <1>2, <1>6, <2>1, <2>4
<1>8. CASE ReadsDisconnect(i)
  <2>1. Reads(i, "disconnect") /\ broker' = [broker EXCEPT ![i] = "closed"]
    BY <1>8 DEF ReadsDisconnect
  <2>2. CASE conn[m] # i
    BY <1>2, <1>8, <2>1, <2>2, ClaimStays, Connected DEF ReadsDisconnect, TypeOK
  <2>3. QED
    BY <1>2, <1>6, <2>1, <2>2
<1>9. CASE MissesSession(i)
  <2>1. /\ cut[i] /\ UNCHANGED <<inbox, conn, phase, cut, subscribed>>
        /\ broker' = [broker EXCEPT ![i] = "closed"]
    BY <1>9 DEF MissesSession
  <2>2. ~subscribed[m] => mail'[m] = mail[m]
    <3>1. owner[i] \in Machine
      BY <1>9 DEF MissesSession, PlaceOK, Live
    <3>2. Offline(owner[i]) \in Record
      BY <3>1, RecordFacts
    <3>3. QED
      BY <1>9, <3>2, RetainsFacts DEF MissesSession
  <2>3. CASE conn[m] # i
    BY <2>1, <2>2, <2>3, ClaimStays, Connected DEF TypeOK
  <2>4. CASE conn[m] = i
    BY <1>1, <2>1, <2>4 DEF ClaimingOK
  <2>5. QED
    BY <2>3, <2>4
<1>10. QED
  BY <1>3, <1>4, <1>7, <1>8, <1>9 DEF BrokerStep

LEMMA OtherClaim ==
  ASSUME TypeOK, PlaceOK, NEW m \in Machine, ClaimingOK(m),
         UserClears \/ \E i \in Session : LosesConnection(i)
  PROVE  ClaimingOK(m)'
<1> USE DEF historyVars, sessionVars
<1>1. CASE UserClears
  <2>1. ~subscribed[m] => mail'[m] = mail[m]
    BY <1>1, RetainsFacts, RecordFacts DEF UserClears
  <2>2. QED
    BY <1>1, <2>1, ClaimStays DEF UserClears
<1>2. ASSUME NEW i \in Session, LosesConnection(i) PROVE ClaimingOK(m)'
  <2>1. Breaks(i) /\ UNCHANGED <<conn, phase, subscribed, broker>>
    BY <1>2 DEF LosesConnection
  <2>2. CASE conn[m] = i
    <3>1. i # 0 /\ cut'[i]
      BY <2>1, <2>2, BreaksFacts, Connected
    <3>2. QED
      BY <2>1, <2>2, <3>1 DEF ClaimingOK
  <2>3. CASE conn[m] # i
    <3>1. mail'[m] = mail[m]
      BY <1>2, <2>3 DEF LosesConnection, TypeOK
    <3>2. conn[m] # 0 => /\ inbox'[conn[m]] = inbox[conn[m]]
                         /\ cut'[conn[m]] = cut[conn[m]]
      BY <2>1, <2>3, BreaksFacts, Connected
    <3>3. QED
      BY <2>1, <3>1, <3>2, ClaimStays
  <2>4. QED
    BY <2>2, <2>3
<1>3. QED
  BY <1>1, <1>2

\* What a bridge's step leaves alone of another bridge and its session.
LEMMA OthersAlone ==
  ASSUME TypeOK, PlaceOK, NEW m \in Machine, BridgeStep(m),
         NEW n \in Machine, n # m
  PROVE  /\ conn'[n] = conn[n] /\ phase'[n] = phase[n] /\ mail'[n] = mail[n]
         /\ subscribed'[n] = subscribed[n] /\ cfg'[n] = cfg[n]
         /\ conn[n] # 0 =>
              /\ broker'[conn[n]] = broker[conn[n]]
              /\ inbox'[conn[n]] = inbox[conn[n]]
              /\ cut'[conn[n]] = cut[conn[n]]
<1> USE DEF historyVars, sessionVars
<1>0. conn[n] # 0 =>
        /\ conn[n] \in Session /\ conn[n] <= opened /\ conn[n] # conn[m]
        /\ conn[n] # opened + 1
  <2>1. opened \in Nat /\ conn[n] \in Nat
    BY SessionAssumption DEF TypeOK
  <2>2. conn[n] # 0 => conn[n] \in Session /\ conn[n] <= opened /\ owner[conn[n]] = n
    BY Connected
  <2>3. conn[m] # 0 => owner[conn[m]] = m
    BY Connected
  <2>4. QED
    BY <2>1, <2>2, <2>3
<1>1. ASSUME NEW s \in Seq(Message), Sends(m, s), conn[n] # 0
      PROVE  inbox'[conn[n]] = inbox[conn[n]]
  BY <1>0, <1>1, SendsFacts
<1>2. ASSUME Opens(m)
      PROVE  /\ conn'[n] = conn[n]
             /\ conn[n] # 0 =>
                  /\ broker'[conn[n]] = broker[conn[n]]
                  /\ inbox'[conn[n]] = inbox[conn[n]]
                  /\ cut'[conn[n]] = cut[conn[n]]
  BY <1>0, <1>2, OpensFacts
<1>3. CASE Starts(m)
  BY <1>2, <1>3 DEF Starts, TypeOK
<1>4. CASE LooksAtRecord(m)
  BY <1>1, <1>4, MessagesSent DEF LooksAtRecord, TypeOK
<1>5. CASE Resigns(m)
  BY <1>1, <1>5, MessagesSent, EndsFacts DEF Resigns
<1>6. CASE Accepts(m)
  BY <1>1, <1>6, MessagesSent DEF Accepts, TypeOK
<1>7. CASE NoticesLoss(m)
  BY <1>7 DEF NoticesLoss, TypeOK
<1>8. CASE Reconnects(m)
  BY <1>2, <1>8 DEF Reconnects, TypeOK
<1>9. CASE Resumes(m)
  BY <1>1, <1>9, MessagesSent DEF Resumes, TypeOK
<1>10. ASSUME NEW c \in Cfg, SetsRenderCfg(m, c)
       PROVE  /\ UNCHANGED <<conn, phase, mail, subscribed, broker, cut>>
              /\ cfg'[n] = cfg[n]
              /\ conn[n] # 0 => inbox'[conn[n]] = inbox[conn[n]]
  BY <1>1, <1>10, MessagesSent DEF SetsRenderCfg, TypeOK
<1>11. CASE Stops(m)
  BY <1>1, <1>11, MessagesSent, EndsFacts DEF Stops
<1>12. CASE Crashes(m)
  <2>1. conn[n] # 0 => /\ inbox'[conn[n]] = inbox[conn[n]]
                       /\ cut'[conn[n]] = cut[conn[n]]
    <3>1. CASE conn[m] = 0 \/ cut[conn[m]]
      BY <1>12, <3>1 DEF Crashes
    <3>2. CASE ~(conn[m] = 0 \/ cut[conn[m]])
      BY <1>0, <1>12, <3>2, BreaksFacts, Connected DEF Crashes
    <3>3. QED
      BY <3>1, <3>2
  <2>2. QED
    BY <1>12, <2>1, EndsFacts DEF Crashes
<1>13. QED
  BY <1>3, <1>4, <1>5, <1>6, <1>7, <1>8, <1>9, <1>10, <1>11, <1>12
  DEF BridgeStep, Inspects, WindowEnds, GivesUp

LEMMA BridgeClaim ==
  ASSUME TypeOK, PlaceOK, ClaimOK, NEW m \in Machine, BridgeStep(m)
  PROVE  ClaimOK'
<1> SUFFICES ASSUME NEW n \in Machine PROVE ClaimingOK(n)'
  BY DEF ClaimOK
<1>1. ClaimingOK(n)
  BY DEF ClaimOK
<1>2. CASE n # m
  BY <1>1, <1>2, OthersAlone, ClaimStays
<1>3. CASE n = m
  <2>1. CASE Starts(m)
    <3>1. /\ opened' # 0 /\ conn'[m] = opened' /\ broker'[opened'] = "new"
          /\ inbox'[opened'] = <<Connect>>
      BY <2>1, OpensFacts DEF Starts, Session
    <3>2. mail'[m] = <<>> /\ phase'[m] = "connecting"
      BY <1>1, <1>3, <2>1, Connected DEF Starts, ClaimingOK, TypeOK
    <3>3. QED
      BY <1>3, <3>1, <3>2 DEF ClaimingOK
  <2>2. CASE Reconnects(m)
    <3>1. opened' # 0 /\ conn'[m] = opened'
      BY <2>2, OpensFacts DEF Reconnects, Session
    <3>2. phase'[m] = "reconnecting"
      BY <2>2 DEF Reconnects, TypeOK
    <3>3. QED
      BY <1>3, <3>1, <3>2 DEF ClaimingOK
  <2>3. CASE LooksAtRecord(m)
    <3>1. /\ phase[m] = "connecting" /\ mail[m] # <<>> /\ phase'[m] = "waiting"
          /\ mail'[m] = Tail(mail[m]) /\ UNCHANGED <<conn, cut, broker, subscribed>>
          /\ Sends(m, <<Subscribe>>)
      BY <2>3 DEF LooksAtRecord, TypeOK
    <3>2. conn[m] # 0 /\ ~subscribed[m]
      BY <3>1, Connected
    <3>3. CASE cut[conn[m]]
      BY <1>3, <3>1, <3>2, <3>3 DEF ClaimingOK
    <3>4. CASE ~cut[conn[m]]
      <4>1. /\ broker[conn[m]] = "open" /\ inbox[conn[m]] = <<>>
            /\ mail[m] = <<Connack>>
        BY <1>1, <1>3, <3>1, <3>4 DEF ClaimingOK
      <4>2. inbox'[conn[m]] = <<>> \o <<Subscribe>>
        <5>1. conn[m] \in Session /\ <<Subscribe>> \in Seq(Message)
          BY <3>2, Connected, MessagesSent
        <5>2. inbox'[conn[m]] = inbox[conn[m]] \o <<Subscribe>>
          BY <3>1, <3>4, <5>1, SendsFacts
        <5>3. QED
          BY <4>1, <5>2
      <4>3. <<>> \o <<Subscribe>> = <<Subscribe>> /\ Tail(<<Connack>>) = <<>>
        OBVIOUS
      <4>4. QED
        BY <1>3, <3>1, <3>2, <4>1, <4>2, <4>3 DEF ClaimingOK
    <3>5. QED
      BY <3>3, <3>4
  <2>4. CASE Ends(m)
    BY <1>3, <2>4, EndsFacts DEF ClaimingOK
  <2>5. ASSUME conn' = conn, conn[m] # 0, phase'[m] \in {"up", "reconnecting"}
        PROVE  ClaimingOK(m)'
    BY <2>5 DEF ClaimingOK
  <2>6. CASE Accepts(m) /\ phase[m] = "waiting"
    BY <1>3, <2>5, <2>6, Connected DEF Accepts, TypeOK
  <2>7. CASE NoticesLoss(m)
    BY <1>3, <2>7 DEF NoticesLoss, ClaimingOK, TypeOK
  <2>8. CASE Resumes(m)
    BY <1>3, <2>5, <2>8, Connected DEF Resumes, TypeOK
  <2>9. ASSUME NEW c \in Cfg, SetsRenderCfg(m, c) PROVE ClaimingOK(m)'
    <3>1. phase'[m] \notin {"connecting", "waiting"} /\ UNCHANGED <<conn, mail>>
      BY <2>9 DEF SetsRenderCfg, Running
    <3>2. QED
      BY <1>1, <1>3, <3>1 DEF ClaimingOK
  <2>10. QED
    BY <1>3, <2>1, <2>2, <2>3, <2>4, <2>6, <2>7, <2>8, <2>9
    DEF BridgeStep, Inspects, WindowEnds, GivesUp, Resigns, Stops, Crashes
<1>4. QED
  BY <1>2, <1>3

-----------------------------------------------------------------------------
(* Whatever may fail: the shape of every state. *)

ShapeOK == TypeOK /\ PlaceOK /\ InboxOK /\ ClaimOK

LEMMA InitShape == Init => ShapeOK
<1> SUFFICES ASSUME Init PROVE ShapeOK
  OBVIOUS
<1>1. \A m \in Machine : BridgeOK(m) /\ ClaimingOK(m)
  BY DEF Init, BridgeOK, ClaimingOK
<1>2. \A i \in Session : ~Live(i) /\ i \notin served /\ ~(i <= opened)
  BY DEF Init, Live, Session
<1>3. QED
  BY <1>1, <1>2, InitTypes DEF ShapeOK, PlaceOK, InboxOK, ClaimOK

LEMMA NextShape == ShapeOK /\ [Next]_vars => ShapeOK'
<1> SUFFICES ASSUME ShapeOK, [Next]_vars PROVE ShapeOK'
  OBVIOUS
<1>1. TypeOK /\ PlaceOK /\ InboxOK /\ ClaimOK
  BY DEF ShapeOK
<1>2. ASSUME NEW m \in Machine, BridgeStep(m) PROVE ShapeOK'
  BY <1>1, <1>2, BridgeTypes, BridgePlace, BridgeInbox, BridgeClaim DEF ShapeOK
<1>3. ASSUME NEW i \in Session, BrokerStep(i) PROVE ShapeOK'
  BY <1>1, <1>3, BrokerTypes, BrokerPlace, BrokerInbox, BrokerClaim
  DEF ShapeOK, ClaimOK
<1>4. ASSUME NEW i \in Session, LosesConnection(i) PROVE ShapeOK'
  BY <1>1, <1>4, LosesTypes, OtherPlace, LosesInbox, OtherClaim DEF ShapeOK, ClaimOK
<1>5. CASE UserClears
  BY <1>1, <1>5, ClearsTypes, OtherPlace, ClearsInbox, OtherClaim DEF ShapeOK, ClaimOK
<1>6. CASE UNCHANGED vars
  <2>1. UNCHANGED <<record, opened, owner, broker, cut, inbox, phase, conn, mail,
                    subscribed, cfg, served, torn, silenced, contended>>
    BY <1>6 DEF vars, sessionVars, bridgeVars, historyVars
  <2>2. TypeOK'
    BY <1>1, <2>1 DEF TypeOK
  <2>3. PlaceOK'
    BY <1>1, <2>1 DEF PlaceOK, BridgeOK, Live, Running
  <2>4. InboxOK'
    BY <1>1, <2>1 DEF InboxOK, SessionOK, Live, Of
  <2>5. ClaimOK'
    BY <1>1, <2>1 DEF ClaimOK, ClaimingOK
  <2>6. QED
    BY <2>2, <2>3, <2>4, <2>5 DEF ShapeOK
<1>7. QED
  BY <1>2, <1>3, <1>4, <1>5, <1>6 DEF Next

LEMMA ShapeAlways == Spec => []ShapeOK
BY InitShape, NextShape, PTL DEF Spec

-----------------------------------------------------------------------------
(* What a step may do to sessions and to the record. *)

\* No step but an opening makes or moves a session.
LEMMA SessionMoves ==
  ASSUME ShapeOK, [Next]_vars
  PROVE  \/ \E m \in Machine : Starts(m) \/ Reconnects(m)
         \/ /\ owner' = owner /\ opened' = opened
            /\ \A i \in Session : Live(i)' => Live(i)
            /\ \A m \in Machine : conn'[m] \in {0, conn[m]}
<1> USE DEF historyVars, sessionVars
<1>0. TypeOK
  BY DEF ShapeOK
<1>1. ASSUME NEW i \in Session, BrokerStep(i)
      PROVE  /\ UNCHANGED <<owner, opened, conn>>
             /\ \A j \in Session : Live(j)' => Live(j)
  <2>1. ASSUME NEW op, Reads(i, op) PROVE UNCHANGED <<owner, opened, conn>> /\ Live(i)
    BY <2>1 DEF Reads, Live
  <2>2. CASE ReadsConnect(i)
    <3>1. \A j \in Session : Live(j)' = Live(j)
      BY <1>0, <2>1, <2>2 DEF ReadsConnect, Live, TypeOK
    <3>2. QED
      BY <2>1, <2>2, <3>1 DEF ReadsConnect
  <2>3. CASE ReadsDisconnect(i) \/ MissesSession(i)
    <3>1. /\ broker' = [broker EXCEPT ![i] = "closed"]
          /\ UNCHANGED <<owner, opened, conn>>
      BY <2>1, <2>3 DEF ReadsDisconnect, MissesSession
    <3>2. QED
      BY <1>0, <3>1 DEF Live, TypeOK
  <2>4. CASE ReadsSubscribe(i) \/ ReadsPublish(i)
    BY <2>1, <2>4 DEF ReadsSubscribe, ReadsPublish, Live
  <2>5. QED
    BY <1>1, <2>2, <2>3, <2>4 DEF BrokerStep
<1>2. ASSUME NEW m \in Machine, BridgeStep(m), ~(Starts(m) \/ Reconnects(m))
      PROVE  /\ UNCHANGED <<owner, opened, broker>>
             /\ \A n \in Machine : conn'[n] \in {0, conn[n]}
  <2>1. CASE Ends(m)
    BY <1>0, <2>1, EndsFacts
  <2>2. CASE NoticesLoss(m)
    BY <1>0, <2>2 DEF NoticesLoss, TypeOK
  <2>3. ASSUME NEW c \in Cfg, SetsRenderCfg(m, c)
        PROVE  UNCHANGED <<owner, opened, broker, conn>>
    BY <2>3 DEF SetsRenderCfg
  <2>4. CASE LooksAtRecord(m) \/ Accepts(m) \/ Resumes(m)
    BY <2>4 DEF LooksAtRecord, Accepts, Resumes
  <2>5. QED
    BY <1>2, <2>1, <2>2, <2>3, <2>4
    DEF BridgeStep, Inspects, WindowEnds, GivesUp, Resigns, Stops, Crashes
<1>3. CASE UserClears \/ \E i \in Session : LosesConnection(i)
  BY <1>3 DEF UserClears, LosesConnection, Live
<1>4. CASE UNCHANGED vars
  BY <1>4 DEF vars, bridgeVars, Live
<1>5. QED
  BY <1>1, <1>2, <1>3, <1>4 DEF Next, Live

\* Only the broker changes the record.
LEMMA BridgeRecord ==
  ASSUME NEW m \in Machine, BridgeStep(m) PROVE record' = record
<1>1. ASSUME Ends(m) PROVE record' = record
  BY <1>1 DEF Ends
<1>2. ASSUME NEW c \in Cfg, SetsRenderCfg(m, c) PROVE record' = record
  BY <1>2 DEF SetsRenderCfg
<1>3. QED
  BY <1>1, <1>2
  DEF BridgeStep, Inspects, WindowEnds, GivesUp, Resigns, Stops, Crashes, Starts,
      LooksAtRecord, Accepts, NoticesLoss, Reconnects, Resumes

\* The record changes by what a served bridge published, by the will of a session
\* that was cut, or because it was cleared.
LEMMA RecordMoves ==
  ASSUME ShapeOK, [Next]_vars
  PROVE  \/ record' = record
         \/ UserClears /\ record' = Free
         \/ \E i \in Session :
              /\ ReadsPublish(i) /\ record' = Head(inbox[i]).record
              /\ record' \in Of(owner[i]) /\ i \in served
              /\ broker[i] = "open" /\ owner[i] \in Machine
         \/ \E i \in Session :
              /\ MissesSession(i) /\ record' = Offline(owner[i])
              /\ cut[i] /\ Live(i) /\ owner[i] \in Machine
<1> USE DEF historyVars, sessionVars
<1>0. TypeOK /\ PlaceOK /\ InboxOK
  BY DEF ShapeOK
<1>1. ASSUME NEW i \in Session, ReadsPublish(i)
      PROVE  /\ record' = Head(inbox[i]).record
             /\ record' \in Of(owner[i]) /\ i \in served
             /\ broker[i] = "open" /\ owner[i] \in Machine
  <2>1. Reads(i, "publish") /\ Retains(Head(inbox[i]).record)
    BY <1>1 DEF ReadsPublish
  <2>2. /\ Live(i) /\ SessionOK(i) /\ inbox[i] # <<>> /\ inbox[i] \in Seq(Message)
        /\ Head(inbox[i]).op = "publish"
    BY <1>0, <2>1, ReadsFacts DEF InboxOK
  <2>3. Head(inbox[i]).record \in IF i \in served THEN Of(owner[i]) ELSE {}
    BY <2>2, Reading DEF SessionOK
  <2>4. broker[i] # "new"
    BY <2>2, Messages DEF SessionOK
  <2>5. broker[i] = "open" /\ owner[i] \in Machine
    BY <1>0, <2>2, <2>4 DEF PlaceOK, TypeOK, Live
  <2>6. QED
    BY <2>1, <2>3, <2>5 DEF Retains
<1>2. ASSUME NEW i \in Session, MissesSession(i)
      PROVE  \/ record' = record
             \/ /\ record' = Offline(owner[i])
                /\ cut[i] /\ Live(i) /\ owner[i] \in Machine
  BY <1>0, <1>2 DEF MissesSession, Retains, PlaceOK, Live
<1>3. ASSUME NEW m \in Machine, BridgeStep(m) PROVE record' = record
  BY <1>3, BridgeRecord
<1>4. ASSUME NEW i \in Session,
             ReadsConnect(i) \/ ReadsSubscribe(i) \/ ReadsDisconnect(i)
             \/ LosesConnection(i)
      PROVE  record' = record
  BY <1>4 DEF ReadsConnect, ReadsSubscribe, ReadsDisconnect, LosesConnection
<1>5. CASE UserClears
  BY <1>5 DEF UserClears, Retains
<1>6. CASE UNCHANGED vars
  BY <1>6 DEF vars
<1>7. QED
  BY <1>1, <1>2, <1>3, <1>4, <1>5, <1>6 DEF Next, BrokerStep

\* A session stays of the bridge that opened it.
LEMMA OwnersStay ==
  ASSUME ShapeOK, [Next]_vars, NEW i \in Session, i <= opened
  PROVE  owner'[i] = owner[i] /\ i <= opened' /\ (Live(i)' => Live(i))
<1>0. TypeOK /\ opened \in Nat
  BY SessionAssumption DEF ShapeOK, TypeOK
<1>1. ASSUME NEW m \in Machine, Opens(m)
      PROVE  owner'[i] = owner[i] /\ i <= opened' /\ (Live(i)' => Live(i))
  <2>1. opened' = opened + 1
    BY <1>0, <1>1, OpensFacts
  <2>2. i # opened' /\ i <= opened'
    BY <1>0, <2>1 DEF Session
  <2>3. QED
    BY <1>0, <1>1, <2>2, OpensFacts DEF Live
<1>2. QED
  BY <1>1, SessionMoves DEF Starts, Reconnects

\* A session claimed stays one; a bridge claims but the one it has.
LEMMA ServedMoves ==
  ASSUME ShapeOK, [Next]_vars
  PROVE  /\ served \subseteq served'
         /\ \A i \in Session : i \in served' /\ i \notin served =>
              \E m \in Machine : conn'[m] = i
<1> USE DEF historyVars, sessionVars
<1>0. TypeOK /\ PlaceOK
  BY DEF ShapeOK
<1>1. ASSUME NEW m \in Machine, BridgeStep(m)
      PROVE  served' = served \/ served' = served \cup {conn'[m]}
  <2>1. ASSUME Ends(m) PROVE served' = served
    BY <2>1 DEF Ends
  <2>2. ASSUME NEW c \in Cfg, SetsRenderCfg(m, c) PROVE served' = served
    BY <2>2 DEF SetsRenderCfg
  <2>3. CASE Reconnects(m)
    <3>1. conn'[m] = opened'
      BY <1>0, <2>3, OpensFacts DEF Reconnects
    <3>2. QED
      BY <2>3, <3>1 DEF Reconnects
  <2>4. CASE Accepts(m)
    BY <2>4 DEF Accepts
  <2>5. QED
    BY <1>1, <2>1, <2>2, <2>3, <2>4
    DEF BridgeStep, Inspects, WindowEnds, GivesUp, Resigns, Stops, Crashes, Starts,
        LooksAtRecord, NoticesLoss, Resumes
<1>2. ASSUME NEW i \in Session, BrokerStep(i) PROVE served' = served
  BY <1>2 DEF BrokerStep, ReadsConnect, ReadsSubscribe, ReadsPublish,
              ReadsDisconnect, MissesSession, Reads
<1>3. ASSUME NEW i \in Session, LosesConnection(i) PROVE served' = served
  BY <1>3 DEF LosesConnection
<1>4. CASE UserClears \/ UNCHANGED vars
  BY <1>4 DEF UserClears, vars
<1>5. QED
  BY <1>1, <1>2, <1>3, <1>4 DEF Next

\* Connections go one at a time.
LEMMA CutMoves ==
  ASSUME ShapeOK, [Next]_vars
  PROVE  UNCHANGED <<cut, torn>> \/ \E k \in Session : Breaks(k)
<1> USE DEF historyVars, sessionVars
<1>1. ASSUME NEW m \in Machine, Crashes(m)
      PROVE  UNCHANGED <<cut, torn>> \/ \E k \in Session : Breaks(k)
  BY <1>1, Connected DEF Crashes, ShapeOK
<1>2. ASSUME NEW m \in Machine, BridgeStep(m), ~Crashes(m) PROVE UNCHANGED <<cut, torn>>
  <2>1. ASSUME NEW c \in Cfg, SetsRenderCfg(m, c) PROVE UNCHANGED <<cut, torn>>
    BY <2>1 DEF SetsRenderCfg
  <2>2. QED
    BY <1>2, <2>1
    DEF BridgeStep, Inspects, WindowEnds, GivesUp, Resigns, Stops, Starts, Opens,
        LooksAtRecord, Accepts, NoticesLoss, Reconnects, Resumes
<1>3. ASSUME NEW k \in Session, BrokerStep(k) PROVE UNCHANGED <<cut, torn>>
  BY <1>3 DEF BrokerStep, ReadsConnect, ReadsSubscribe, ReadsPublish,
              ReadsDisconnect, MissesSession, Reads
<1>4. CASE \E k \in Session : LosesConnection(k)
  BY <1>4 DEF LosesConnection
<1>5. CASE UserClears \/ UNCHANGED vars
  BY <1>5 DEF UserClears, vars
<1>6. QED
  BY <1>1, <1>2, <1>3, <1>4, <1>5 DEF Next

-----------------------------------------------------------------------------
(* Bridges that never had the prefix. *)

\* What is cut was claimed, or torn.
CutOK ==
  /\ \A i \in Session : cut[i] => i \in served \cup torn
  /\ \A i \in torn : i <= opened

LosersOK == CutOK /\ LosersLeaveNoTrace

LEMMA InitLosers == Init => LosersOK
BY DEF Init, LosersOK, CutOK, LosersLeaveNoTrace, Free

LEMMA NextLosers ==
  ASSUME ShapeOK, LosersOK, [Next]_vars
  PROVE  LosersOK'
<1>0. TypeOK /\ PlaceOK /\ torn \subseteq Session /\ served \subseteq Session
  BY DEF ShapeOK, TypeOK
<1>1. served \subseteq served' /\ \A i \in served \cup torn : owner'[i] = owner[i]
  BY <1>0, ServedMoves, OwnersStay DEF PlaceOK, LosersOK, CutOK
<1>2. ASSUME NEW k \in Session, Breaks(k)
      PROVE  /\ torn' = torn \cup ({k} \ served) /\ k <= opened
             /\ \A i \in Session : cut'[i] => cut[i] \/ i = k
  BY <1>0, <1>2, BreaksFacts DEF PlaceOK
<1>3. torn \subseteq torn'
  BY <1>2, CutMoves
<1>4. CutOK'
  <2>1. ASSUME NEW i \in Session, cut'[i] PROVE i \in served' \cup torn'
    BY <1>1, <1>2, <1>3, <2>1, CutMoves DEF LosersOK, CutOK
  <2>2. ASSUME NEW i \in torn' PROVE i <= opened'
    <3>1. i \in Session /\ i <= opened
      BY <1>0, <1>2, <2>2, CutMoves DEF LosersOK, CutOK
    <3>2. QED
      BY <3>1, OwnersStay
  <2>3. QED
    BY <2>1, <2>2 DEF CutOK
<1>5. LosersLeaveNoTrace'
  <2>1. \/ record'.who \in {Nobody} \cup {owner[i] : i \in served}
        \/ record'.state = "offline" /\ \E i \in torn : owner[i] = record'.who
    <3>1. CASE record' = record
      BY <3>1 DEF LosersOK, LosersLeaveNoTrace
    <3>2. CASE record' = Free
      BY <3>2 DEF Free
    <3>3. ASSUME NEW i \in Session, record' \in Of(owner[i]), i \in served,
                 owner[i] \in Machine
          PROVE  record'.who \in {owner[j] : j \in served}
      BY <3>3, RecordFacts
    <3>4. ASSUME NEW i \in Session, cut[i], record' = Offline(owner[i])
          PROVE  \/ record'.who \in {owner[j] : j \in served}
                 \/ record'.state = "offline" /\ \E j \in torn : owner[j] = record'.who
      BY <3>4 DEF LosersOK, CutOK, Offline
    <3>5. QED
      BY <3>1, <3>2, <3>3, <3>4, RecordMoves
  <2>2. {owner[i] : i \in served} \subseteq {owner'[i] : i \in served'}
    BY <1>1
  <2>3. QED
    BY <1>1, <1>3, <2>1, <2>2 DEF LosersLeaveNoTrace
<1>6. QED
  BY <1>4, <1>5 DEF LosersOK

-----------------------------------------------------------------------------
(* Sessions on their way out. *)

LEMMA SaysFacts ==
  /\ \A s, r, q, R : Says(s, r, R) /\ q \in R => Says(s, q, R)
  /\ \A s, r, R : Publishes(s, {}) /\ r \in R => Says(s, r, R)
  /\ \A s, r, R : Publishes(s, {}) /\ Says(s, r, R) => r \in R
BY DEF Says, Publishes

\* What becomes of a session in a bridge's step, as long as the bridge has left it.
LEMMA BridgeMoves ==
  ASSUME ShapeOK, NEW m \in Machine, BridgeStep(m), NEW i \in Session, Live(i)',
         conn'[owner'[i]] # i
  PROVE  /\ Live(i) /\ owner'[i] = owner[i] /\ broker'[i] = broker[i]
         /\ \/ inbox'[i] = inbox[i]
            \/ inbox'[i] \in Prefixes(inbox[i])
            \/ /\ i = conn[m] /\ owner[i] = m
               /\ \/ Claiming(m) /\ inbox'[i] = inbox[i] \o <<Disconnect>>
                  \/ inbox'[i] = inbox[i] \o <<Publish(Offline(m)), Disconnect>>
<1> USE DEF historyVars, sessionVars
<1>0. TypeOK /\ PlaceOK /\ i # 0
  BY DEF ShapeOK, Session
<1>1. ASSUME Opens(m)
      PROVE  /\ owner'[i] = owner[i] /\ broker'[i] = broker[i]
             /\ inbox'[i] = inbox[i]
  <2>1. i # opened'
    BY <1>0, <1>1, OpensFacts
  <2>2. QED
    BY <1>0, <1>1, <2>1, OpensFacts
<1>2. ASSUME NEW s \in Seq(Message), Sends(m, s), UNCHANGED <<owner, conn, broker>>
      PROVE  inbox'[i] = inbox[i]
  BY <1>0, <1>2, SendsFacts, Connected
<1>3. ASSUME NEW s \in Seq(Message), Sends(m, s)
      PROVE  \/ inbox'[i] = inbox[i]
             \/ i = conn[m] /\ owner[i] = m /\ inbox'[i] = inbox[i] \o s
  <2>1. i = conn[m] => owner[i] = m
    BY <1>0, Connected
  <2>2. inbox'[i] = IF i = conn[m] /\ ~cut[i] THEN inbox[i] \o s ELSE inbox[i]
    BY <1>0, <1>3, SendsFacts
  <2>3. QED
    BY <2>1, <2>2
<1>4. CASE Starts(m) \/ Reconnects(m)
  BY <1>1, <1>4 DEF Starts, Reconnects, Live
<1>5. CASE LooksAtRecord(m)
  BY <1>0, <1>2, <1>5, MessagesSent DEF LooksAtRecord, Live
<1>6. CASE Resigns(m) /\ Claiming(m)
  BY <1>0, <1>3, <1>6, MessagesSent DEF Resigns, Ends, Live
<1>7. CASE Accepts(m)
  BY <1>0, <1>2, <1>7, MessagesSent DEF Accepts, Live
<1>8. CASE NoticesLoss(m)
  BY <1>8 DEF NoticesLoss, Live
<1>9. CASE Resumes(m)
  BY <1>0, <1>2, <1>9, MessagesSent DEF Resumes, Live
<1>10. ASSUME NEW c \in Cfg, SetsRenderCfg(m, c)
       PROVE  UNCHANGED <<owner, broker>> /\ inbox'[i] = inbox[i]
  BY <1>0, <1>2, <1>10, MessagesSent DEF SetsRenderCfg
<1>11. CASE Stops(m)
  BY <1>0, <1>3, <1>11, MessagesSent DEF Stops, Ends, Live
<1>12. CASE Crashes(m)
  <2>1. inbox'[i] = inbox[i] \/ inbox'[i] \in Prefixes(inbox[i])
    <3>1. CASE conn[m] = 0 \/ cut[conn[m]]
      BY <1>12, <3>1 DEF Crashes
    <3>2. CASE ~(conn[m] = 0 \/ cut[conn[m]])
      BY <1>0, <1>12, <3>2, BreaksFacts, Connected DEF Crashes
    <3>3. QED
      BY <3>1, <3>2
  <2>2. QED
    BY <1>12, <2>1 DEF Crashes, Ends, Live
<1>13. QED
  BY <1>4, <1>5, <1>6, <1>7, <1>8, <1>9, <1>10, <1>11, <1>12
  DEF BridgeStep, Inspects, WindowEnds, GivesUp, Live, Claiming

\* What a session that was left has yet to tell the broker gets shorter, or was said
\* in full by the bridge that stops.
LEMMA LeavesMoves ==
  ASSUME ShapeOK, ShapeOK', [Next]_vars,
         NEW i \in Session, Live(i)', i \in served', Leaves(inbox'[i])
  PROVE  /\ Live(i) /\ i \in served /\ owner'[i] = owner[i] /\ owner[i] \in Machine
         /\ \/ inbox'[i] = inbox[i] /\ ~ReadsPublish(i)
            \/ /\ inbox[i] # <<>> /\ inbox'[i] = Tail(inbox[i]) /\ Leaves(inbox[i])
               /\ Head(inbox[i]).op = "publish" => ReadsPublish(i)
            \/ inbox'[i] = inbox[i] \o <<Publish(Offline(owner[i])), Disconnect>>
<1> USE DEF historyVars, sessionVars
<1>0. /\ TypeOK /\ PlaceOK /\ InboxOK /\ inbox[i] \in Seq(Message)
      /\ opened \in Nat /\ i \in Nat
  BY SessionAssumption DEF ShapeOK, TypeOK, Session
<1>1. conn'[owner'[i]] # i /\ \A m \in Machine : conn'[m] # i
  <2>1. conn'[owner'[i]] # i
    BY DEF ShapeOK, InboxOK, SessionOK
  <2>2. ASSUME NEW m \in Machine, conn'[m] = i PROVE owner'[i] = m
    <3>1. BridgeOK(m)' /\ i # 0
      BY DEF ShapeOK, PlaceOK, Session
    <3>2. QED
      BY <2>2, <3>1 DEF BridgeOK
  <2>3. QED
    BY <2>1, <2>2
<1>2. i \in served
  BY <1>1, ServedMoves
<1>3. owner'[i] = owner[i] /\ Live(i) /\ owner[i] \in Machine
  <2>1. i <= opened
    BY <1>2 DEF ShapeOK, PlaceOK
  <2>2. QED
    BY <1>0, <2>1, OwnersStay DEF PlaceOK
<1>4. ASSUME NEW op, Reads(i, op), op = "publish" => ReadsPublish(i)
      PROVE  /\ inbox[i] # <<>> /\ inbox'[i] = Tail(inbox[i]) /\ Leaves(inbox[i])
             /\ Head(inbox[i]).op = "publish" => ReadsPublish(i)
  <2>1. inbox[i] # <<>> /\ inbox'[i] = Tail(inbox[i]) /\ Head(inbox[i]).op = op
    BY <1>0, <1>4, ReadsFacts
  <2>2. Leaves(inbox[i])
    BY <1>0, <2>1, Reading
  <2>3. QED
    BY <1>4, <2>1, <2>2
<1>5. ReadsPublish(i) => inbox'[i] # inbox[i]
  <2>1. ReadsPublish(i) => inbox[i] # <<>> /\ inbox'[i] = Tail(inbox[i])
    BY <1>0, ReadsFacts DEF ReadsPublish
  <2>2. QED
    BY <1>0, <2>1, TailDiffers
<1>6. CASE inbox'[i] \in Prefixes(inbox[i])
  <2>1. EndsOnce(inbox[i])
    BY <1>0, <1>3 DEF InboxOK, SessionOK
  <2>2. inbox'[i] = inbox[i]
    BY <1>0, <1>6, <2>1, Losing
  <2>3. QED
    BY <1>2, <1>3, <1>5, <2>2
<1>7. CASE BrokerStep(i)
  <2>1. ~ReadsDisconnect(i) /\ ~MissesSession(i)
    BY <1>0 DEF ReadsDisconnect, MissesSession, Live, TypeOK
  <2>2. QED
    BY <1>2, <1>3, <1>4, <1>7, <2>1
    DEF BrokerStep, ReadsConnect, ReadsSubscribe, ReadsPublish
<1>8. ASSUME NEW k \in Session, k # i, BrokerStep(k) PROVE inbox'[i] = inbox[i]
  <2>1. ASSUME NEW op, Reads(k, op) PROVE inbox'[i] = inbox[i]
    BY <1>0, <1>8, <2>1, ReadsFacts
  <2>2. QED
    BY <1>8, <2>1 DEF BrokerStep, ReadsConnect, ReadsSubscribe, ReadsPublish,
                      ReadsDisconnect, MissesSession
<1>9. ASSUME NEW k \in Session, LosesConnection(k)
      PROVE  inbox'[i] = inbox[i] \/ inbox'[i] \in Prefixes(inbox[i])
  BY <1>0, <1>9, BreaksFacts DEF LosesConnection
<1>10. ASSUME NEW m \in Machine, BridgeStep(m)
       PROVE  \/ inbox'[i] = inbox[i]
              \/ inbox'[i] \in Prefixes(inbox[i])
              \/ inbox'[i] = inbox[i] \o <<Publish(Offline(owner[i])), Disconnect>>
  <2>1. i = conn[m] => ~Claiming(m)
    BY <1>0, <1>2, Connected DEF Claiming, Running, Session
  <2>2. \/ inbox'[i] = inbox[i]
        \/ inbox'[i] \in Prefixes(inbox[i])
        \/ /\ i = conn[m] /\ owner[i] = m
           /\ \/ Claiming(m) /\ inbox'[i] = inbox[i] \o <<Disconnect>>
              \/ inbox'[i] = inbox[i] \o <<Publish(Offline(m)), Disconnect>>
    BY <1>1, <1>10, BridgeMoves
  <2>3. QED
    BY <2>1, <2>2
<1>11. CASE UserClears \/ UNCHANGED vars
  BY <1>2, <1>3, <1>5, <1>11 DEF UserClears, vars
<1>12. QED
  BY <1>2, <1>3, <1>5, <1>6, <1>7, <1>8, <1>9, <1>10, <1>11 DEF Next

\* The last that a bridge which claimed the prefix says before it leaves is that it
\* is offline.
LastWordsOK ==
  \A i \in served : Live(i) /\ Leaves(inbox[i]) =>
    Says(inbox[i], Offline(owner[i]), {Offline(owner[i])})

\* A farewell that is sent, or read.
LEMMA Farewells ==
  ASSUME NEW s \in Seq(Message), NEW m \in Machine
  PROVE  LET t == s \o <<Publish(Offline(m)), Disconnect>> IN
         /\ \A r : Says(t, r, {Offline(m)})
         /\ ~Publishes(t, {})
<1> DEFINE x == Publish(Offline(m))
           u == s \o <<x>>
           t == s \o <<x, Disconnect>>
<1>1. x \in Message /\ x.op = "publish" /\ x.record = Offline(m)
  BY RecordFacts, Messages
<1>2. t = u \o <<Disconnect>>
  BY <1>1, Farewell
<1>3. u \in Seq(Message) /\ \A r : Says(u, r, {Offline(m)})
  BY <1>1, Sending
<1> HIDE DEF u
<1>4. ASSUME NEW r PROVE Says(t, r, {Offline(m)})
  <2>1. Says(u, r, {Offline(m)})
    BY <1>3
  <2>2. QED
    BY <1>2, <1>3, <2>1, Messages, Sending
<1> HIDE DEF t
<1>5. ~Publishes(t, {})
  <2>1. Free \notin {Offline(m)}
    BY DEF Free, Offline
  <2>2. QED
    BY <1>4, <2>1, SaysFacts
<1>6. QED
  BY <1>4, <1>5 DEF t

LEMMA NextLastWords ==
  ASSUME ShapeOK, ShapeOK', LastWordsOK, [Next]_vars
  PROVE  LastWordsOK'
<1> SUFFICES ASSUME NEW i \in served', Live(i)', Leaves(inbox'[i])
             PROVE  Says(inbox'[i], Offline(owner'[i]), {Offline(owner'[i])})
  BY DEF LastWordsOK, Offline
<1>1. i \in Session /\ inbox[i] \in Seq(Message)
  BY DEF ShapeOK, TypeOK
<1>2. i \in served /\ Live(i) /\ owner'[i] = owner[i] /\ owner[i] \in Machine
  BY <1>1, LeavesMoves
<1>3. CASE inbox'[i] = inbox[i]
  BY <1>2, <1>3 DEF LastWordsOK
<1>4. CASE inbox[i] # <<>> /\ inbox'[i] = Tail(inbox[i]) /\ Leaves(inbox[i])
  <2>1. Says(inbox[i], Offline(owner[i]), {Offline(owner[i])})
    BY <1>2, <1>4 DEF LastWordsOK
  <2>2. PICK r : Says(inbox'[i], r, {Offline(owner[i])})
    BY <1>1, <1>4, <2>1, Reading
  <2>3. QED
    BY <1>2, <2>2, SaysFacts
<1>5. CASE inbox'[i] = inbox[i] \o <<Publish(Offline(owner[i])), Disconnect>>
  BY <1>1, <1>2, <1>5, Farewells
<1>6. QED
  BY <1>1, <1>3, <1>4, <1>5, LeavesMoves

\* A session of a bridge that claimed the prefix, over which the broker will hear it
\* say that it is offline, or miss it.
Speaks(i) ==
  /\ broker[i] = "open" /\ i \in served
  /\ Leaves(inbox[i]) => ~Publishes(inbox[i], {})

\* The records published after a session's last, as far as they count.
LEMMA SilencedMoves ==
  ASSUME ShapeOK, [Next]_vars
  PROVE  \/ silenced' = silenced /\ (record' = record \/ UserClears)
         \/ \E i \in Session : /\ ReadsPublish(i) \/ MissesSession(i)
                               /\ silenced' = Silences(i, record')
<1> USE DEF historyVars, sessionVars
<1>1. ASSUME NEW i \in Session, BrokerStep(i)
      PROVE  \/ UNCHANGED <<silenced, record>>
             \/ /\ ReadsPublish(i) \/ MissesSession(i)
                /\ silenced' = Silences(i, record')
  BY <1>1 DEF BrokerStep, ReadsConnect, ReadsSubscribe, ReadsPublish,
              ReadsDisconnect, MissesSession, Retains
<1>2. ASSUME NEW m \in Machine, BridgeStep(m) PROVE UNCHANGED <<silenced, record>>
  <2>1. ASSUME Ends(m) PROVE UNCHANGED <<silenced, record>>
    BY <2>1 DEF Ends
  <2>2. ASSUME NEW c \in Cfg, SetsRenderCfg(m, c) PROVE UNCHANGED <<silenced, record>>
    BY <2>2 DEF SetsRenderCfg
  <2>3. QED
    BY <1>2, <2>1, <2>2
    DEF BridgeStep, Inspects, WindowEnds, GivesUp, Resigns, Stops, Crashes, Starts,
        LooksAtRecord, Accepts, NoticesLoss, Reconnects, Resumes
<1>3. ASSUME NEW i \in Session, LosesConnection(i) PROVE UNCHANGED <<silenced, record>>
  BY <1>3 DEF LosesConnection
<1>4. UserClears => silenced' = silenced
  BY DEF UserClears
<1>5. UNCHANGED vars => UNCHANGED <<silenced, record>>
  BY DEF vars
<1>6. QED
  BY <1>1, <1>2, <1>3, <1>4, <1>5 DEF Next

\* A farewell that is read last.
LEMMA ReadsLast ==
  ASSUME ShapeOK, LastWordsOK, NEW i \in served, ReadsPublish(i),
         Leaves(inbox[i]), Publishes(Tail(inbox[i]), {})
  PROVE  record' = Offline(owner[i])
<1>1. /\ i \in Session /\ Live(i) /\ inbox[i] \in Seq(Message) /\ inbox[i] # <<>>
      /\ Head(inbox[i]).op = "publish"
  BY DEF ShapeOK, TypeOK, ReadsPublish, Reads, Live
<1>2. record' = Head(inbox[i]).record
  BY DEF ReadsPublish, Retains
<1>3. Says(inbox[i], Offline(owner[i]), {Offline(owner[i])})
  BY <1>1 DEF LastWordsOK
<1>4. Says(Tail(inbox[i]), record', {Offline(owner[i])})
  BY <1>1, <1>2, <1>3, Reading
<1>5. QED
  BY <1>4, SaysFacts

\* What has no message to read before the first published, publishes after it.
LEMMA PublishesTail ==
  ASSUME NEW s \in Seq(Message), s # <<>>, Head(s).op # "publish",
         Publishes(Tail(s), {})
  PROVE  Publishes(s, {})
<1>1. /\ Len(Tail(s)) = Len(s) - 1 /\ Head(s) = s[1]
      /\ \A k \in 1 .. Len(Tail(s)) : Tail(s)[k] = s[k + 1]
      /\ DOMAIN Tail(s) = 1 .. Len(Tail(s)) /\ DOMAIN s = 1 .. Len(s) /\ Len(s) \in Nat
  BY HeadTailProperties, EmptySeq
<1> DEFINE t == Tail(s)
<1> HIDE DEF t
<1>2. ASSUME NEW k \in DOMAIN s, k # 1 PROVE s[k].op # "publish"
  <2>1. k - 1 \in DOMAIN t /\ t[k - 1] = s[k]
    BY <1>1, <1>2 DEF t
  <2>2. Publishes(t, {})
    BY DEF t
  <2>3. QED
    BY <2>1, <2>2 DEF Publishes
<1>3. QED
  BY <1>1, <1>2 DEF Publishes

LEMMA SpeaksMoves ==
  ASSUME ShapeOK, ShapeOK', LastWordsOK, [Next]_vars, NEW i \in Session, Speaks(i)
  PROVE  \/ Speaks(i)'
         \/ record' = Offline(owner[i]) /\ silenced' = Silences(i, record')
<1> USE DEF historyVars, sessionVars
<1>0. /\ TypeOK /\ PlaceOK /\ InboxOK /\ inbox[i] \in Seq(Message)
      /\ i \in served /\ i \in served' /\ Live(i) /\ i <= opened
  BY ServedMoves DEF ShapeOK, TypeOK, Speaks, Live, PlaceOK
<1>1. CASE MissesSession(i)
  BY <1>1 DEF MissesSession, Retains, Speaks
<1>2. ASSUME ReadsDisconnect(i) PROVE FALSE
  <2>1. Reads(i, "disconnect")
    BY <1>2 DEF ReadsDisconnect
  <2>2. inbox[i] # <<>> /\ Head(inbox[i]) = Disconnect /\ EndsOnce(inbox[i])
    BY <1>0, <2>1, ReadsFacts, MessageFacts DEF InboxOK, SessionOK
  <2>3. Leaves(inbox[i]) /\ Tail(inbox[i]) = <<>>
    BY <1>0, <2>2, Reading
  <2>4. Publishes(<<>>, {}) /\ Disconnect.op # "publish"
    BY Messages DEF Publishes
  <2>5. QED
    BY <1>0, <2>2, <2>3, <2>4, PublishesTail DEF Speaks
<1>3. CASE ~MissesSession(i)
  <2>1. broker'[i] = "open"
    <3>1. ASSUME NEW k \in Session, BrokerStep(k), k # i PROVE broker'[i] = broker[i]
      BY <1>0, <3>1 DEF BrokerStep, ReadsConnect, ReadsSubscribe, ReadsPublish,
                        ReadsDisconnect, MissesSession, TypeOK
    <3>2. CASE BrokerStep(i)
      BY <1>0, <1>2, <1>3, <3>2
      DEF BrokerStep, ReadsConnect, ReadsSubscribe, ReadsPublish, TypeOK, Speaks
    <3>3. ASSUME NEW m \in Machine, BridgeStep(m) PROVE broker'[i] = broker[i]
      <4>1. ASSUME Ends(m) PROVE broker' = broker
        BY <4>1 DEF Ends
      <4>2. ASSUME NEW c \in Cfg, SetsRenderCfg(m, c) PROVE broker' = broker
        BY <4>2 DEF SetsRenderCfg
      <4>3. ASSUME Opens(m) PROVE broker'[i] = broker[i]
        <5>1. i # opened'
          BY <1>0, <4>3, OpensFacts, SessionAssumption DEF TypeOK, Session
        <5>2. QED
          BY <1>0, <4>3, <5>1, OpensFacts
      <4>4. QED
        BY <3>3, <4>1, <4>2, <4>3
        DEF BridgeStep, Inspects, WindowEnds, GivesUp, Resigns, Stops, Crashes,
            Starts, LooksAtRecord, Accepts, NoticesLoss, Reconnects, Resumes
    <3>4. ASSUME UserClears \/ UNCHANGED vars \/ \E k \in Session : LosesConnection(k)
          PROVE  broker' = broker
      BY <3>4 DEF UserClears, vars, LosesConnection
    <3>5. QED
      BY <3>1, <3>2, <3>3, <3>4 DEF Next, Speaks
  <2>2. CASE ~(Leaves(inbox'[i]) /\ Publishes(inbox'[i], {}))
    BY <1>0, <2>1, <2>2 DEF Speaks
  <2>3. CASE Leaves(inbox'[i]) /\ Publishes(inbox'[i], {})
    <3>1. Live(i)'
      BY <2>1 DEF Live
    <3>2. CASE inbox'[i] = inbox[i]
      BY <2>3, <3>2 DEF Speaks
    <3>3. CASE inbox'[i] = inbox[i] \o <<Publish(Offline(owner[i])), Disconnect>>
      <4>1. owner[i] \in Machine
        BY <1>0 DEF PlaceOK
      <4>2. QED
        BY <1>0, <2>3, <3>3, <4>1, Farewells
    <3>4. CASE /\ inbox[i] # <<>> /\ inbox'[i] = Tail(inbox[i]) /\ Leaves(inbox[i])
               /\ Head(inbox[i]).op = "publish" => ReadsPublish(i)
      <4>1. ReadsPublish(i)
        BY <1>0, <2>3, <3>4, PublishesTail DEF Speaks
      <4>2. record' = Offline(owner[i])
        BY <1>0, <2>3, <3>4, <4>1, ReadsLast
      <4>3. QED
        BY <4>1, <4>2 DEF ReadsPublish, Retains
    <3>5. QED
      BY <1>0, <2>3, <3>1, <3>2, <3>3, <3>4, LeavesMoves
  <2>4. QED
    BY <2>2, <2>3
<1>4. QED
  BY <1>1, <1>3

\* A session over which a record was published speaks, or has said its last.
LEMMA PublisherSpeaks ==
  ASSUME ShapeOK, ShapeOK', LastWordsOK, [Next]_vars,
         NEW i \in Session, i \in served, broker[i] = "open", ReadsPublish(i)
  PROVE  Speaks(i)' \/ record' = Offline(owner[i])
<1>1. /\ inbox[i] \in Seq(Message) /\ inbox[i] # <<>>
      /\ Head(inbox[i]).op = "publish"
  BY DEF ShapeOK, TypeOK, ReadsPublish, Reads
<1>2. ~Publishes(inbox[i], {})
  BY <1>1, Reading
<1>3. QED
  BY <1>2, SpeaksMoves DEF Speaks

-----------------------------------------------------------------------------
(* Bridges that are gone. *)

\* An online record is of a session that the broker will not forget silently.
BackedOK ==
  record.state = "online" =>
    \E i \in Session : owner[i] = record.who /\ Speaks(i)

LEMMA NextBacked ==
  ASSUME ShapeOK, ShapeOK', LastWordsOK, BackedOK, [Next]_vars
  PROVE  BackedOK'
<1> SUFFICES ASSUME record'.state = "online"
             PROVE  \E i \in Session : owner'[i] = record'.who /\ Speaks(i)'
  BY DEF BackedOK
<1>0. TypeOK /\ PlaceOK
  BY DEF ShapeOK
<1>1. ASSUME NEW i \in Session, i \in served PROVE owner'[i] = owner[i]
  BY <1>0, <1>1, OwnersStay DEF PlaceOK
<1>2. \A m : record' # Offline(m)
  BY DEF Offline
<1>3. CASE record' = record
  <2>1. PICK i \in Session : owner[i] = record.who /\ Speaks(i)
    BY <1>3 DEF BackedOK
  <2>2. QED
    BY <1>1, <1>2, <1>3, <2>1, SpeaksMoves DEF Speaks
<1>4. CASE record' # record
  <2>1. PICK i \in Session : /\ ReadsPublish(i) /\ record' \in Of(owner[i])
                             /\ broker[i] = "open" /\ owner[i] \in Machine
                             /\ i \in served
    BY <1>2, <1>4, RecordMoves DEF Free
  <2>2. record'.who = owner[i]
    BY <2>1, RecordFacts
  <2>3. QED
    BY <1>1, <1>2, <2>1, <2>2, PublisherSpeaks
<1>5. QED
  BY <1>3, <1>4

GhostOK == LastWordsOK /\ BackedOK

LEMMA InitGhost == Init => GhostOK
BY DEF Init, GhostOK, LastWordsOK, BackedOK, Free

LEMMA GhostsGone == ShapeOK /\ GhostOK => NoGhost
<1> SUFFICES ASSUME ShapeOK, GhostOK, Quiet, NEW m \in Machine, phase[m] = "down",
                    record.who = m, record.state = "online"
             PROVE  FALSE
  BY DEF NoGhost
<1>1. PICK i \in Session : owner[i] = m /\ broker[i] = "open"
  BY DEF GhostOK, BackedOK, Speaks
<1>2. conn[m] = 0 /\ 0 \notin Session
  BY Connected DEF ShapeOK
<1>3. cut[i] \/ Leaves(inbox[i])
  BY <1>1, <1>2 DEF ShapeOK, InboxOK, SessionOK, Live
<1>4. ~cut[i] /\ inbox[i] = <<>>
  BY <1>1 DEF Quiet
<1>5. QED
  BY <1>3, <1>4 DEF Leaves

-----------------------------------------------------------------------------
(* Who has the prefix. *)

\* m has the prefix, or had it and the broker may still hear of that.
Holder(m) == Running(m) \/ \E i \in served : owner[i] = m /\ Live(i)

\* Nobody contends with the bridge that has it.
SoleOK == ~contended => \A m, n \in Machine : Holder(m) /\ Holder(n) => m = n

\* Steps that have a bridge go on, and the one that lets it have the prefix.
LEMMA HolderMoves ==
  ASSUME ShapeOK, [Next]_vars
  PROVE  \/ \E m \in Machine : Accepts(m) /\ phase[m] = "waiting"
                               /\ (Inspects(m) \/ WindowEnds(m))
         \/ /\ contended' = contended
            /\ \A m \in Machine : Holder(m)' => Holder(m)
<1> USE DEF historyVars, sessionVars
<1>0. TypeOK /\ PlaceOK
  BY DEF ShapeOK
<1>1. SUFFICES ASSUME ~ \E m \in Machine : Accepts(m) /\ phase[m] = "waiting"
                                           /\ (Inspects(m) \/ WindowEnds(m))
               PROVE  /\ contended' = contended
                      /\ \A m \in Machine : Holder(m)' => Holder(m)
  OBVIOUS
<1>2. ASSUME NEW k \in Machine, BridgeStep(k)
      PROVE  /\ contended' = contended
             /\ Running(k)' => Running(k)
             /\ served' = served \/ (Reconnects(k) /\ served' = served \cup {opened'})
  <2>1. CASE Ends(k)
    BY <1>0, <2>1, EndsFacts DEF Running
  <2>2. ASSUME NEW c \in Cfg, SetsRenderCfg(k, c)
        PROVE  UNCHANGED <<contended, served>> /\ Running(k)
    BY <2>2 DEF SetsRenderCfg
  <2>3. CASE Starts(k) \/ LooksAtRecord(k)
    BY <1>0, <2>3 DEF Starts, LooksAtRecord, Running, TypeOK
  <2>4. CASE NoticesLoss(k) \/ Resumes(k) \/ Reconnects(k)
    BY <2>4 DEF NoticesLoss, Resumes, Reconnects, Running
  <2>5. QED
    BY <1>1, <1>2, <2>1, <2>2, <2>3, <2>4
    DEF BridgeStep, Inspects, WindowEnds, GivesUp, Resigns, Stops, Crashes
<1>3. ASSUME \/ UserClears \/ UNCHANGED vars
             \/ \E i \in Session : BrokerStep(i) \/ LosesConnection(i)
      PROVE  UNCHANGED <<contended, served, phase>>
  BY <1>3 DEF UserClears, vars, bridgeVars, LosesConnection, BrokerStep, ReadsConnect,
              ReadsSubscribe, ReadsPublish, ReadsDisconnect, MissesSession, Reads
<1>4. contended' = contended
  BY <1>2, <1>3 DEF Next
<1>5. ASSUME NEW m \in Machine, Running(m)' PROVE Running(m)
  <2>1. ASSUME NEW k \in Machine, BridgeStep(k), k # m PROVE phase'[m] = phase[m]
    BY <1>0, <2>1, OthersAlone
  <2>2. QED
    BY <1>2, <1>3, <1>5, <2>1 DEF Next, Running
<1>6. ASSUME NEW m \in Machine, NEW i \in served', owner'[i] = m, Live(i)'
      PROVE  Holder(m)
  <2>1. CASE i \in served
    <3>1. owner[i] = m /\ Live(i)
      BY <1>0, <1>6, <2>1, OwnersStay DEF PlaceOK, TypeOK
    <3>2. QED
      BY <2>1, <3>1 DEF Holder
  <2>2. CASE i \notin served
    <3>1. PICK k \in Machine : Reconnects(k) /\ served' = served \cup {opened'}
      BY <1>2, <1>3, <1>6, <2>2 DEF Next
    <3>2. owner'[opened'] = k
      BY <1>0, <3>1, OpensFacts DEF Reconnects
    <3>3. k = m
      BY <1>6, <2>2, <3>1, <3>2
    <3>4. QED
      BY <3>1, <3>3 DEF Reconnects, Holder, Running
  <2>3. QED
    BY <2>1, <2>2
<1>7. ASSUME NEW m \in Machine, Holder(m)' PROVE Holder(m)
  BY <1>5, <1>6, <1>7 DEF Holder
<1>8. QED
  BY <1>4, <1>7

LEMMA NextSole ==
  ASSUME ShapeOK, SoleOK, [Next]_vars
  PROVE  SoleOK'
<1> SUFFICES ASSUME ~contended'
             PROVE  \A m, n \in Machine : Holder(m)' /\ Holder(n)' => m = n
  BY DEF SoleOK
<1>0. TypeOK /\ PlaceOK
  BY DEF ShapeOK
<1>1. ASSUME NEW k \in Machine, Accepts(k), phase[k] = "waiting"
      PROVE  \A m \in Machine : Holder(m)' => m = k
  <2>1. ~contended /\ ~Contends(k)
    BY <1>1 DEF Accepts
  <2>2. ASSUME NEW m \in Machine, m # k, Running(m)' PROVE FALSE
    BY <1>0, <1>1, <2>1, <2>2 DEF Accepts, Running, Contends, TypeOK
  <2>3. ASSUME NEW m \in Machine, m # k, NEW i \in served', owner'[i] = m, Live(i)'
        PROVE  FALSE
    <3>1. i \in served /\ owner[i] = m /\ broker[i] # "closed"
      BY <1>0, <1>1, <2>3, Connected DEF Accepts, Live
    <3>2. QED
      BY <2>1, <2>3, <3>1 DEF Contends
  <2>4. QED
    BY <2>2, <2>3 DEF Holder
<1>2. ASSUME contended' = contended, \A m \in Machine : Holder(m)' => Holder(m)
      PROVE  \A m, n \in Machine : Holder(m)' /\ Holder(n)' => m = n
  BY <1>2 DEF SoleOK
<1>3. QED
  BY <1>1, <1>2, HolderMoves

-----------------------------------------------------------------------------
(* Connected bridges. *)

Up(m) == phase[m] = "up" /\ ~cut[conn[m]]

\* A connected bridge has said what it is, or says so now.
LEMMA UpMoves ==
  ASSUME ShapeOK, [Next]_vars, NEW m \in Machine, Up(m)'
  PROVE  LET c == conn'[m] IN
         /\ c \in Session /\ cfg'[m] \in Cfg \cup {NoCfg}
         /\ inbox[c] \in Seq(Message)
         /\ \/ inbox'[c] = inbox[c] \o <<Publish(Online(m, cfg'[m]))>>
            \/ /\ Up(m) /\ conn[m] = c /\ cfg'[m] = cfg[m]
               /\ Live(c) /\ ~cut[c] /\ c \in served /\ owner[c] = m
               /\ \/ inbox'[c] = inbox[c] /\ ~ReadsPublish(c)
                  \/ /\ inbox[c] # <<>> /\ inbox'[c] = Tail(inbox[c])
                     /\ Head(inbox[c]).op = "publish" => ReadsPublish(c)
                     /\ ReadsPublish(c) => Head(inbox[c]).op = "publish"
<1> USE DEF historyVars, sessionVars
<1> DEFINE c == conn'[m]
           Said == inbox'[c] = inbox[c] \o <<Publish(Online(m, cfg'[m]))>>
           Kept == inbox'[c] = inbox[c] /\ ~ReadsPublish(c)
           Read == /\ inbox[c] # <<>> /\ inbox'[c] = Tail(inbox[c])
                   /\ Head(inbox[c]).op = "publish" => ReadsPublish(c)
                   /\ ReadsPublish(c) => Head(inbox[c]).op = "publish"
           Is == conn[m] = c /\ cfg'[m] = cfg[m] /\ phase[m] = "up" /\ ~cut[c]
<1>0. TypeOK /\ PlaceOK /\ InboxOK /\ TypeOK' /\ PlaceOK'
  BY NextShape DEF ShapeOK
<1>1. c \in Session /\ cfg'[m] \in Cfg \cup {NoCfg} /\ inbox[c] \in Seq(Message)
  <2>1. BridgeOK(m)' /\ c \in 0 .. MaxSessions /\ MaxSessions \in Nat
    BY <1>0, SessionAssumption DEF PlaceOK, TypeOK
  <2>2. c # 0
    BY <2>1 DEF BridgeOK, Up
  <2>3. c \in Session
    BY <2>1, <2>2 DEF Session
  <2>4. QED
    BY <1>0, <2>3 DEF TypeOK
<1>2. ASSUME Is PROVE Up(m) /\ Live(c) /\ c \in served /\ owner[c] = m
  BY <1>0, <1>1, <1>2, Connected DEF Up, Running
<1>3. ReadsPublish(c) => inbox'[c] # inbox[c]
  <2>1. ReadsPublish(c) => inbox[c] # <<>> /\ inbox'[c] = Tail(inbox[c])
    BY <1>0, <1>1, ReadsFacts DEF ReadsPublish
  <2>2. QED
    BY <1>1, <2>1, TailDiffers
<1>4. ASSUME Sends(m, <<Publish(Online(m, cfg'[m]))>>), UNCHANGED <<conn, cut>>
      PROVE  Said
  <2>1. <<Publish(Online(m, cfg'[m]))>> \in Seq(Message)
    BY <1>1, RecordFacts, Messages
  <2>2. ~cut[c] /\ conn[m] = c
    BY <1>4 DEF Up
  <2>3. QED
    BY <1>0, <1>1, <1>4, <2>1, <2>2, SendsFacts
<1>5. ASSUME NEW k \in Machine, BridgeStep(k) PROVE Said \/ (Is /\ Kept)
  <2>1. CASE k # m
    <3>1. conn[m] = c /\ phase[m] = "up" /\ cfg'[m] = cfg[m] /\ c # 0
      BY <1>0, <1>1, <1>5, <2>1, OthersAlone DEF Up, Session
    <3>2. inbox'[c] = inbox[c] /\ ~cut[c]
      BY <1>0, <1>5, <2>1, <3>1, OthersAlone DEF Up
    <3>3. QED
      BY <1>3, <3>1, <3>2
  <2>2. CASE k = m
    <3>1. ASSUME Ends(m) PROVE FALSE
      BY <1>0, <3>1, EndsFacts DEF Up
    <3>2. ASSUME \/ Starts(m) \/ LooksAtRecord(m) \/ NoticesLoss(m) \/ Reconnects(m)
          PROVE  FALSE
      BY <1>0, <3>2 DEF Starts, LooksAtRecord, NoticesLoss, Reconnects, TypeOK, Up
    <3>3. CASE Accepts(m)
      BY <1>4, <3>3 DEF Accepts
    <3>4. CASE Resumes(m)
      BY <1>4, <3>4 DEF Resumes
    <3>5. ASSUME NEW d \in Cfg, SetsRenderCfg(m, d) PROVE Said
      <4>1. cfg'[m] = d
        BY <1>0, <3>5 DEF SetsRenderCfg, TypeOK
      <4>2. QED
        BY <1>4, <3>5, <4>1 DEF SetsRenderCfg
    <3>6. QED
      BY <1>5, <2>2, <3>1, <3>2, <3>3, <3>4, <3>5
      DEF BridgeStep, Inspects, WindowEnds, GivesUp, Resigns, Stops, Crashes
  <2>3. QED
    BY <2>1, <2>2
<1>6. ASSUME NEW i \in Session, LosesConnection(i) PROVE Is /\ Kept
  <2>1. UNCHANGED <<phase, conn, cfg>> /\ Breaks(i)
    BY <1>6 DEF LosesConnection
  <2>2. i # c /\ ~cut[c] /\ inbox'[c] = inbox[c]
    BY <1>0, <1>1, <2>1, BreaksFacts DEF Up
  <2>3. QED
    BY <1>3, <2>1, <2>2 DEF Up
<1>7. ASSUME NEW i \in Session, BrokerStep(i) PROVE Is /\ (Kept \/ Read)
  <2>1. UNCHANGED <<phase, conn, cfg, cut>>
    BY <1>7 DEF BrokerStep, ReadsConnect, ReadsSubscribe, ReadsPublish,
                ReadsDisconnect, MissesSession, Reads
  <2>2. Is
    BY <2>1 DEF Up
  <2>3. ASSUME NEW op, Reads(i, op), op = "publish" <=> ReadsPublish(i)
        PROVE  Kept \/ Read
    <3>1. CASE i = c
      BY <1>0, <2>3, <3>1, ReadsFacts
    <3>2. CASE i # c
      BY <1>0, <1>1, <1>3, <2>3, <3>2, ReadsFacts
    <3>3. QED
      BY <3>1, <3>2
  <2>4. ReadsPublish(i) => Reads(i, "publish")
    BY DEF ReadsPublish
  <2>5. ASSUME NEW op, Reads(i, op), op # "publish" PROVE Kept \/ Read
    <3>1. Head(inbox[i]).op = op
      BY <1>0, <2>5, ReadsFacts
    <3>2. ~ReadsPublish(i)
      BY <2>5, <3>1 DEF ReadsPublish, Reads
    <3>3. QED
      BY <2>3, <2>5, <3>2
  <2>6. CASE MissesSession(i)
    BY <1>3, <2>2, <2>6 DEF MissesSession
  <2>7. QED
    BY <1>7, <2>2, <2>3, <2>4, <2>5, <2>6
    DEF BrokerStep, ReadsConnect, ReadsSubscribe, ReadsDisconnect
<1>8. ASSUME UserClears PROVE Is /\ Kept
  BY <1>3, <1>8 DEF UserClears, Up
<1>9. ASSUME UNCHANGED vars PROVE Is /\ Kept
  BY <1>3, <1>9 DEF vars, bridgeVars, Up
<1>10. Said \/ (Is /\ (Kept \/ Read))
  BY <1>5, <1>6, <1>7, <1>8, <1>9 DEF Next
<1> HIDE DEF Said, Kept, Read, Is
<1>11. QED
  BY <1>1, <1>2, <1>10 DEF Said, Kept, Read, Is

\* The last that the broker will hear of a connected bridge is what it is.
SaidOK ==
  \A m \in Machine : Up(m) =>
    Says(inbox[conn[m]], Online(m, cfg[m]), {Online(m, cfg[m])})

LEMMA NextSaid ==
  ASSUME ShapeOK, SaidOK, [Next]_vars
  PROVE  SaidOK'
<1> SUFFICES ASSUME NEW m \in Machine, Up(m)'
             PROVE  Says(inbox'[conn'[m]], Online(m, cfg'[m]), {Online(m, cfg'[m])})
  BY DEF SaidOK, Online
<1> DEFINE c == conn'[m]
           o == Online(m, cfg'[m])
<1>1. c \in Session /\ inbox[c] \in Seq(Message) /\ o \in Record
  BY UpMoves, RecordFacts
<1>2. CASE inbox'[c] = inbox[c] \o <<Publish(o)>>
  <2>1. Publish(o) \in Message /\ Publish(o).op = "publish" /\ Publish(o).record = o
    BY <1>1, Messages
  <2> HIDE DEF o
  <2>2. QED
    BY <1>1, <1>2, <2>1, Sending DEF o
<1>3. CASE /\ Up(m) /\ conn[m] = c /\ cfg'[m] = cfg[m]
           /\ \/ inbox'[c] = inbox[c]
              \/ inbox[c] # <<>> /\ inbox'[c] = Tail(inbox[c])
  <2>1. Says(inbox[c], o, {o})
    BY <1>3 DEF SaidOK
  <2> HIDE DEF o
  <2>2. inbox[c] # <<>> => \E r : Says(Tail(inbox[c]), r, {o})
    BY <1>1, <2>1, Reading
  <2>3. Says(inbox'[c], o, {o})
    BY <1>3, <2>1, <2>2, SaysFacts
  <2>4. QED
    BY <2>3 DEF o
<1>4. QED
  BY <1>2, <1>3, UpMoves

\* A connected bridge of which the broker has heard all there is was heard just now,
\* or before.
LEMMA UpHeard ==
  ASSUME ShapeOK, SaidOK, [Next]_vars, NEW m \in Machine, Up(m)',
         Publishes(inbox'[conn'[m]], {})
  PROVE  \/ record' = Online(m, cfg'[m])
         \/ /\ Up(m) /\ conn'[m] = conn[m] /\ cfg'[m] = cfg[m]
            /\ conn[m] \in Session /\ conn[m] \in served /\ owner[conn[m]] = m
            /\ Live(conn[m]) /\ ~cut[conn[m]]
            /\ Publishes(inbox[conn[m]], {}) /\ ~ReadsPublish(conn[m])
<1> DEFINE c == conn'[m]
           o == Online(m, cfg'[m])
<1>1. c \in Session /\ inbox[c] \in Seq(Message) /\ o \in Record
  BY UpMoves, RecordFacts
<1>2. ASSUME inbox'[c] = inbox[c] \o <<Publish(o)>> PROVE FALSE
  <2>1. Publish(o) \in Message /\ Publish(o).op = "publish" /\ Publish(o).record = o
    BY <1>1, Messages
  <2>2. Free \notin {o}
    BY DEF Free, Online
  <2> HIDE DEF o
  <2>3. Says(inbox'[c], Free, {o})
    BY <1>1, <1>2, <2>1, Sending
  <2>4. QED
    BY <2>2, <2>3, SaysFacts
<1>3. ASSUME Up(m), conn[m] = c, cfg'[m] = cfg[m], ReadsPublish(c)
      PROVE  record' = o
  <2>1. /\ Says(inbox[c], o, {o}) /\ inbox[c] # <<>> /\ inbox'[c] = Tail(inbox[c])
        /\ Head(inbox[c]).op = "publish" /\ record' = Head(inbox[c]).record
    BY <1>1, <1>3, ReadsFacts DEF SaidOK, ReadsPublish, Retains, ShapeOK
  <2> HIDE DEF o
  <2>2. Says(inbox'[c], record', {o})
    BY <1>1, <2>1, Reading
  <2>3. QED
    BY <2>2, SaysFacts
<1>4. ASSUME inbox[c] # <<>>, inbox'[c] = Tail(inbox[c]), Head(inbox[c]).op # "publish"
      PROVE  Publishes(inbox[c], {})
  BY <1>1, <1>4, PublishesTail
<1> HIDE DEF o
<1>5. CASE ReadsPublish(c)
  BY <1>2, <1>3, <1>5, UpMoves DEF o
<1>6. CASE ~ReadsPublish(c)
  BY <1>1, <1>2, <1>4, <1>6, UpMoves DEF o
<1>7. QED
  BY <1>5, <1>6

\* Only its own last record makes a live session forget the offline ones after it.
LEMMA SilencedGrows ==
  ASSUME ShapeOK, [Next]_vars, NEW c \in Session, c \in served, Live(c), ~cut[c],
         ~ReadsPublish(c)
  PROVE  /\ silenced[c] \subseteq silenced'[c]
         /\ \A i \in Session : \A r : i # c /\ r.state = "offline"
              /\ silenced' = Silences(i, r) => r.who \in silenced'[c]
<1>1. ~MissesSession(c)
  BY DEF MissesSession
<1>2. \A i \in Session : \A r : i # c => silenced[c] \subseteq Silences(i, r)[c]
  BY DEF Silences
<1>3. silenced[c] \subseteq silenced'[c]
  BY <1>1, <1>2, SilencedMoves
<1>4. QED
  BY <1>3 DEF Silences, Live

\* Then the record is what that bridge is, unless an offline record came after it, or
\* will come from another session.
OnlineOK ==
  \A m \in Machine : Up(m) /\ Publishes(inbox[conn[m]], {}) =>
    \/ record = Online(m, cfg[m])
    \/ silenced[conn[m]] # {}
    \/ \E i \in Session \ {conn[m]} : Speaks(i)

LEMMA NextOnline ==
  ASSUME ShapeOK, ShapeOK', LastWordsOK, SaidOK, OnlineOK, [Next]_vars
  PROVE  OnlineOK'
<1> SUFFICES ASSUME NEW m \in Machine, Up(m)', Publishes(inbox'[conn'[m]], {}),
                    record' # Online(m, cfg'[m])
             PROVE  \/ silenced'[conn'[m]] # {}
                    \/ \E i \in Session \ {conn'[m]} : Speaks(i)'
  BY DEF OnlineOK, Online
<1> DEFINE c == conn'[m]
<1>1. /\ Up(m) /\ conn[m] = c /\ cfg'[m] = cfg[m]
      /\ c \in Session /\ c \in served /\ Live(c) /\ ~cut[c]
      /\ Publishes(inbox[c], {}) /\ ~ReadsPublish(c)
  BY UpHeard
<1>2. /\ silenced[c] \subseteq silenced'[c]
      /\ \A i \in Session : \A r : i # c /\ r.state = "offline"
           /\ silenced' = Silences(i, r) => r.who \in silenced'[c]
  BY <1>1, SilencedGrows
<1>3. \A k : Offline(k).state = "offline" /\ Offline(k).who = k
  BY DEF Offline
<1>4. ASSUME NEW i \in Session, i # c, Speaks(i)
      PROVE  Speaks(i)' \/ silenced'[c] # {}
  BY <1>2, <1>3, <1>4, SpeaksMoves
<1>5. CASE record = Online(m, cfg[m])
  <2>1. ~UserClears
    BY <1>5 DEF UserClears, Online
  <2>2. record' # record
    BY <1>1, <1>5
  <2>3. ASSUME NEW i \in Session, ReadsPublish(i), i \in served, broker[i] = "open"
        PROVE  Speaks(i)' \/ silenced'[c] # {}
    <3>1. i # c /\ silenced' = Silences(i, record')
      BY <1>1, <2>3 DEF ReadsPublish, Retains
    <3>2. QED
      BY <1>2, <1>3, <2>3, <3>1, PublisherSpeaks
  <2>4. ASSUME NEW i \in Session, MissesSession(i), record' = Offline(owner[i])
        PROVE  silenced'[c] # {}
    <3>1. i # c /\ silenced' = Silences(i, record')
      BY <1>1, <2>2, <2>4 DEF MissesSession
    <3>2. QED
      BY <1>2, <1>3, <2>4, <3>1
  <2>5. QED
    BY <1>1, <2>1, <2>2, <2>3, <2>4, RecordMoves
<1>6. QED
  BY <1>1, <1>2, <1>4, <1>5 DEF OnlineOK

\* The prefix is then in its name, unless another's offline record came after.
NamedOK ==
  \A m \in Machine : ~contended /\ Up(m) /\ Publishes(inbox[conn[m]], {}) =>
    record.who = m \/ ~(silenced[conn[m]] \subseteq {m})

LEMMA NextNamed ==
  ASSUME ShapeOK, SoleOK, SaidOK, NamedOK, [Next]_vars
  PROVE  NamedOK'
<1> SUFFICES ASSUME NEW m \in Machine, ~contended', Up(m)',
                    Publishes(inbox'[conn'[m]], {}), record'.who # m
             PROVE  ~(silenced'[conn'[m]] \subseteq {m})
  BY DEF NamedOK
<1> DEFINE c == conn'[m]
<1>0. ~contended /\ TypeOK /\ PlaceOK
  <2>1. TypeOK /\ PlaceOK
    BY DEF ShapeOK
  <2>2. QED
    BY <2>1, HolderMoves DEF Accepts, TypeOK
<1>1. /\ Up(m) /\ conn[m] = c /\ owner[c] = m
      /\ c \in Session /\ c \in served /\ Live(c) /\ ~cut[c]
      /\ Publishes(inbox[c], {}) /\ ~ReadsPublish(c)
  BY UpHeard DEF Online
<1>2. /\ silenced[c] \subseteq silenced'[c]
      /\ \A i \in Session : \A r : i # c /\ r.state = "offline"
           /\ silenced' = Silences(i, r) => r.who \in silenced'[c]
  BY <1>1, SilencedGrows
<1>3. CASE record.who = m
  <2>1. ~UserClears /\ record' # record
    BY <1>1, <1>3 DEF UserClears, Live
  <2>2. ASSUME NEW i \in Session, record' \in Of(owner[i]), i \in served,
               broker[i] = "open", owner[i] \in Machine
        PROVE  FALSE
    <3>1. Holder(m) /\ Holder(owner[i])
      BY <1>1, <2>2 DEF Holder, Live
    <3>2. owner[i] = m
      BY <1>0, <2>2, <3>1 DEF SoleOK
    <3>3. QED
      BY <2>2, <3>2, RecordFacts
  <2>3. ASSUME NEW i \in Session, MissesSession(i), record' = Offline(owner[i])
        PROVE  ~(silenced'[c] \subseteq {m})
    <3>1. i # c /\ silenced' = Silences(i, record')
      BY <1>1, <2>1, <2>3 DEF MissesSession
    <3>2. record'.state = "offline" /\ record'.who = owner[i]
      BY <2>3 DEF Offline
    <3>3. QED
      BY <1>2, <3>1, <3>2
  <2>4. QED
    BY <2>1, <2>2, <2>3, RecordMoves
<1>4. QED
  BY <1>0, <1>1, <1>2, <1>3 DEF NamedOK

-----------------------------------------------------------------------------
(* Claims. *)

\* What a bridge that waits was told last is the record; it was told nothing if that
\* is free.
WaitingOK(m) ==
  phase[m] = "waiting" /\ subscribed[m] /\ ~cut[conn[m]] =>
    IF mail[m] = <<>> THEN record = Free ELSE mail[m][Len(mail[m])] = Publish(record)

WaitOK == \A m \in Machine : WaitingOK(m)

LEMMA NextWait ==
  ASSUME ShapeOK, WaitOK, [Next]_vars
  PROVE  WaitOK'
<1> USE DEF historyVars, sessionVars
<1> SUFFICES ASSUME NEW m \in Machine, phase'[m] = "waiting", subscribed'[m],
                    ~cut'[conn'[m]]
             PROVE  WaitingOK(m)'
  BY DEF WaitOK, WaitingOK
<1>0. TypeOK /\ PlaceOK /\ ClaimingOK(m) /\ WaitingOK(m) /\ mail[m] \in Seq(Message)
  BY DEF ShapeOK, ClaimOK, WaitOK, TypeOK
<1>1. ASSUME phase[m] = "waiting", ~cut[conn[m]]
      PROVE  /\ conn[m] # 0 /\ conn[m] \in Session
             /\ broker[conn[m]] = "open" /\ owner[conn[m]] = m
             /\ inbox[conn[m]] = IF subscribed[m] THEN <<>> ELSE <<Subscribe>>
             /\ ~subscribed[m] => mail[m] = <<>>
  BY <1>0, <1>1, Connected DEF ClaimingOK
\* Nothing that m could tell has happened.
<1>2. ASSUME phase[m] = "waiting", subscribed[m], ~cut[conn[m]], mail'[m] = mail[m],
             record' = record
      PROVE  WaitingOK(m)'
  BY <1>0, <1>2 DEF WaitingOK
\* m is told the record.
<1>3. ASSUME NEW r \in Record, mail'[m] = mail[m] \o <<Publish(r)>>, record' = r
      PROVE  WaitingOK(m)'
  <2>1. Publish(r) \in Message
    BY Messages
  <2>2. mail'[m] # <<>> /\ mail'[m][Len(mail'[m])] = Publish(r)
    BY <1>0, <1>3, <2>1, Sending
  <2>3. QED
    BY <1>3, <2>2 DEF WaitingOK
<1>4. ASSUME NEW r \in Record, Retains(r), UNCHANGED <<phase, subscribed, conn, cut>>
      PROVE  WaitingOK(m)'
  BY <1>0, <1>3, <1>4, RetainsFacts
<1>5. ASSUME NEW k \in Machine, BridgeStep(k) PROVE WaitingOK(m)'
  <2>1. record' = record
    BY <1>5, BridgeRecord
  <2>2. CASE k # m
    <3>1. /\ phase[m] = "waiting" /\ subscribed[m] /\ mail'[m] = mail[m]
          /\ conn'[m] = conn[m]
      BY <1>0, <1>5, <2>2, OthersAlone
    <3>2. ~cut[conn[m]]
      BY <1>0, <1>5, <2>2, <3>1, OthersAlone, Connected
    <3>3. QED
      BY <1>2, <2>1, <3>1, <3>2
  <2>3. CASE k = m
    <3>1. ASSUME Ends(m) PROVE FALSE
      BY <1>0, <3>1, EndsFacts
    <3>2. ASSUME NEW c \in Cfg, SetsRenderCfg(m, c) PROVE FALSE
      BY <3>2 DEF SetsRenderCfg, Running
    <3>3. ASSUME LooksAtRecord(m) PROVE FALSE
      BY <1>0, <3>3, Connected DEF LooksAtRecord
    <3>4. ASSUME \/ Starts(m) \/ Accepts(m) \/ NoticesLoss(m) \/ Reconnects(m)
                 \/ Resumes(m)
          PROVE  FALSE
      BY <1>0, <3>4 DEF Starts, Accepts, NoticesLoss, Reconnects, Resumes, TypeOK
    <3>5. QED
      BY <1>5, <2>3, <3>1, <3>2, <3>3, <3>4
      DEF BridgeStep, Inspects, WindowEnds, GivesUp, Resigns, Stops, Crashes
  <2>4. QED
    BY <2>2, <2>3
<1>6. CASE UserClears
  BY <1>4, <1>6, RecordFacts DEF UserClears
<1>7. ASSUME NEW i \in Session, LosesConnection(i) PROVE WaitingOK(m)'
  <2>1. /\ phase[m] = "waiting" /\ subscribed[m] /\ record' = record
        /\ conn'[m] = conn[m] /\ Breaks(i) /\ conn[m] \in Session
    BY <1>0, <1>7, Connected DEF LosesConnection
  <2>2. i # conn[m] /\ ~cut[conn[m]]
    BY <1>0, <2>1, BreaksFacts
  <2>3. mail'[m] = mail[m]
    BY <1>0, <1>7, <2>2 DEF LosesConnection, TypeOK
  <2>4. QED
    BY <1>2, <2>1, <2>2, <2>3
<1>8. ASSUME NEW i \in Session, ReadsConnect(i) PROVE WaitingOK(m)'
  <2>1. /\ Reads(i, "connect") /\ Answers(i, <<Connack>>)
        /\ record' = record /\ subscribed' = subscribed
    BY <1>8 DEF ReadsConnect
  <2>2. phase[m] = "waiting" /\ ~cut[conn[m]]
    BY <2>1 DEF Reads
  <2>3. i # conn[m]
    BY <1>1, <2>1, <2>2, Messages DEF Reads
  <2>4. mail'[m] = mail[m]
    BY <1>0, <2>1, <2>3, AnswersFacts, MessagesSent
  <2>5. QED
    BY <1>2, <2>1, <2>2, <2>4
<1>9. ASSUME NEW i \in Session, ReadsSubscribe(i) PROVE WaitingOK(m)'
  <2> DEFINE told == IF record = Free THEN <<>> ELSE <<Publish(record)>>
  <2>1. /\ Reads(i, "subscribe") /\ Answers(i, told) /\ record' = record
        /\ phase[m] = "waiting" /\ ~cut[conn[m]]
    BY <1>9 DEF ReadsSubscribe, Reads
  <2>2. told \in Seq(Message) /\ record \in Record
    BY <1>0, Messages DEF TypeOK
  <2>3. CASE i = conn[m]
    <3>1. inbox[i] # <<>>
      BY <2>1 DEF Reads
    <3>2. ~subscribed[m] /\ mail[m] = <<>>
      BY <1>1, <2>1, <2>3, <3>1
    <3>3. mail'[m] = mail[m] \o told
      BY <1>0, <1>1, <2>1, <2>2, <2>3, AnswersFacts
    <3>4. CASE record = Free
      <4>1. mail'[m] = <<>>
        BY <3>2, <3>3, <3>4
      <4>2. QED
        BY <2>1, <3>4, <4>1 DEF WaitingOK
    <3>5. CASE record # Free
      BY <1>3, <2>1, <2>2, <3>3, <3>5
    <3>6. QED
      BY <3>4, <3>5
  <2>4. CASE i # conn[m]
    <3>1. mail'[m] = mail[m]
      <4>1. mail'[m] = IF m = owner[i] /\ conn[m] = i /\ ~cut[i]
                       THEN mail[m] \o told ELSE mail[m]
        <5> HIDE DEF told
        <5>1. QED
          BY <1>0, <2>1, <2>2, AnswersFacts
      <4>2. QED
        BY <2>4, <4>1
    <3>2. subscribed[m]
      <4>1. \/ subscribed' = subscribed
            \/ /\ conn[owner[i]] = i
               /\ subscribed' = [subscribed EXCEPT ![owner[i]] = TRUE]
        BY <1>9 DEF ReadsSubscribe
      <4>2. subscribed \in [Machine -> BOOLEAN]
        BY <1>0 DEF TypeOK
      <4>3. conn[owner[i]] = i => owner[i] # m
        BY <2>4
      <4>4. subscribed'[m] = subscribed[m]
        <5>1. CASE subscribed' = subscribed
          BY <5>1
        <5>2. CASE /\ conn[owner[i]] = i
                   /\ subscribed' = [subscribed EXCEPT ![owner[i]] = TRUE]
          BY <4>2, <4>3, <5>2
        <5>3. QED
          BY <4>1, <5>1, <5>2
      <4>5. QED
        BY <1>2, <2>1, <3>1, <4>4
    <3>3. QED
      BY <1>2, <2>1, <3>1, <3>2
  <2>5. QED
    BY <2>3, <2>4
<1>10. ASSUME NEW i \in Session, ReadsPublish(i) PROVE WaitingOK(m)'
  <2>1. /\ Reads(i, "publish") /\ Retains(Head(inbox[i]).record)
        /\ UNCHANGED <<phase, subscribed, conn, cut>>
    BY <1>10 DEF ReadsPublish, Reads
  <2>2. Head(inbox[i]).record \in Record
    BY <1>0, <2>1, ReadsFacts, MessageFacts
  <2>3. QED
    BY <1>4, <2>1, <2>2
<1>11. ASSUME NEW i \in Session, ReadsDisconnect(i) PROVE WaitingOK(m)'
  BY <1>2, <1>11 DEF ReadsDisconnect, Reads
<1>12. ASSUME NEW i \in Session, MissesSession(i) PROVE WaitingOK(m)'
  <2>1. cut[i] /\ Live(i) /\ UNCHANGED <<phase, subscribed, conn, cut>>
    BY <1>12 DEF MissesSession, Live
  <2>2. CASE broker[i] = "open"
    <3>1. i <= opened /\ owner[i] \in Machine
      BY <1>0, <2>1 DEF PlaceOK
    <3>2. Offline(owner[i]) \in Record
      BY <3>1, RecordFacts
    <3>3. QED
      BY <1>4, <1>12, <2>1, <2>2, <3>2 DEF MissesSession
  <2>3. CASE broker[i] # "open"
    BY <1>2, <1>12, <2>1, <2>3 DEF MissesSession
  <2>4. QED
    BY <2>2, <2>3
<1>13. CASE UNCHANGED vars
  BY <1>2, <1>13 DEF vars, bridgeVars
<1>14. QED
  BY <1>5, <1>6, <1>7, <1>8, <1>9, <1>10, <1>11, <1>12, <1>13 DEF Next, BrokerStep

LEMMA OnlineOnce ==
  ShapeOK /\ SoleOK /\ OnlineOK => OnlineWhenQuiet
<1> SUFFICES ASSUME ShapeOK, SoleOK, OnlineOK, Quiet, ~contended,
                    NEW m \in Machine, Up(m), silenced[conn[m]] = {},
                    record # Online(m, cfg[m])
             PROVE  FALSE
  BY DEF OnlineWhenQuiet, Up
<1>0. TypeOK /\ PlaceOK /\ InboxOK
  BY DEF ShapeOK
<1>1. conn[m] \in Session /\ Live(conn[m]) /\ inbox[conn[m]] = <<>>
  BY <1>0, Connected DEF Up, Quiet, Live
<1>2. Publishes(inbox[conn[m]], {})
  BY <1>1 DEF Publishes
<1>3. PICK i \in Session : i # conn[m] /\ Speaks(i)
  BY <1>2 DEF OnlineOK
<1>4. /\ i \in served /\ Live(i) /\ ~cut[i] /\ inbox[i] = <<>>
      /\ owner[i] \in Machine
  BY <1>0, <1>3 DEF Speaks, Quiet, Live, PlaceOK
<1>5. Holder(m) /\ Holder(owner[i])
  BY <1>4 DEF Holder, Running, Up
<1>6. owner[i] = m
  BY <1>4, <1>5 DEF SoleOK
<1>7. Leaves(inbox[i])
  BY <1>0, <1>3, <1>4, <1>6 DEF InboxOK, SessionOK
<1>8. QED
  BY <1>4, <1>7 DEF Leaves

\* How a bridge that waits comes to have the prefix.
LEMMA ClaimMoves ==
  ASSUME TypeOK, PlaceOK, [Next]_vars,
         NEW m \in Machine, phase[m] = "waiting", phase'[m] = "up"
  PROVE  \/ WindowEnds(m)
         \/ mail[m] # <<>> /\ ~Conflicts(Head(mail[m]).record, m)
<1> USE DEF historyVars, sessionVars
<1>1. ASSUME phase' = phase PROVE FALSE
  BY <1>1
<1>2. ASSUME NEW k \in Machine, BridgeStep(k) PROVE k = m
  BY <1>2, OthersAlone
<1>3. ASSUME NEW c \in Cfg, SetsRenderCfg(m, c) PROVE FALSE
  BY <1>1, <1>3 DEF SetsRenderCfg
<1>4. ASSUME Ends(m) PROVE FALSE
  BY <1>4, EndsFacts
<1>5. ASSUME BridgeStep(m) PROVE WindowEnds(m) \/ Inspects(m)
  BY <1>3, <1>4, <1>5
  DEF BridgeStep, GivesUp, Resigns, Stops, Crashes, Starts, LooksAtRecord, NoticesLoss,
      Running, Reconnects, Resumes
<1>6. \E k \in Machine : BridgeStep(k)
  BY <1>1 DEF Next, vars, bridgeVars, BrokerStep, ReadsConnect, ReadsSubscribe,
              ReadsPublish, ReadsDisconnect, MissesSession, Reads, LosesConnection,
              UserClears
<1>7. WindowEnds(m) \/ Inspects(m)
  BY <1>2, <1>5, <1>6
<1>8. QED
  BY <1>4, <1>7 DEF Inspects, Resigns

LEMMA ClaimsExcluded ==
  ASSUME ShapeOK, NamedOK, WaitOK, [Next]_vars, ~contended,
         NEW m \in Machine, NEW n \in Machine, m # n,
         phase[m] = "waiting", phase'[m] = "up", ~cut[conn[m]],
         phase[n] = "up", ~cut[conn[n]], silenced[conn[n]] \subseteq {n}
  PROVE  \/ inbox[conn[n]] # <<>>
         \/ \E k \in 2 .. Len(mail[m]) : mail[m][k].record.who = n
<1>0. TypeOK /\ PlaceOK /\ ClaimingOK(m) /\ WaitingOK(m) /\ mail[m] \in Seq(Message)
  BY DEF ShapeOK, ClaimOK, WaitOK, TypeOK
<1> SUFFICES ASSUME inbox[conn[n]] = <<>>
             PROVE  \E k \in 2 .. Len(mail[m]) : mail[m][k].record.who = n
  OBVIOUS
<1>1. record.who = n
  <2>1. Publishes(inbox[conn[n]], {})
    BY DEF Publishes
  <2>2. QED
    BY <2>1 DEF NamedOK, Up
<1>2. record # Free /\ Conflicts(record, m)
  BY <1>1, MachineAssumption DEF Free, Conflicts
<1>3. subscribed[m] /\ mail[m] # <<>> => mail[m][Len(mail[m])] = Publish(record)
  BY <1>0 DEF WaitingOK
<1>4. CASE WindowEnds(m)
  <2>1. mail[m] = <<>> /\ inbox[conn[m]] = <<>>
    BY <1>4 DEF WindowEnds
  <2>2. subscribed[m]
    BY <1>0, <2>1 DEF ClaimingOK
  <2>3. QED
    BY <1>0, <1>2, <2>1, <2>2 DEF WaitingOK
<1>5. CASE mail[m] # <<>> /\ ~Conflicts(Head(mail[m]).record, m)
  <2>1. mail[m][Len(mail[m])] = Publish(record)
    BY <1>0, <1>3, <1>5 DEF ClaimingOK
  <2>2. Len(mail[m]) \in Nat \ {0} /\ Head(mail[m]) = mail[m][1]
    BY <1>0, <1>5, EmptySeq
  <2>3. Publish(record).record = record
    BY Messages
  <2>4. Len(mail[m]) # 1
    BY <1>2, <1>5, <2>1, <2>2, <2>3
  <2>5. mail[m][Len(mail[m])].record.who = n
    BY <1>1, <2>1, <2>3
  <2>6. \A l \in Nat \ {0} : l # 1 => l \in 2 .. l
    OBVIOUS
  <2>7. Len(mail[m]) \in 2 .. Len(mail[m])
    BY <2>2, <2>4, <2>6
  <2>8. QED
    BY <2>5, <2>7
<1>6. QED
  BY <1>0, <1>4, <1>5, ClaimMoves

-----------------------------------------------------------------------------
(* Theorems. *)

RightOK ==
  LosersOK /\ GhostOK /\ SoleOK /\ SaidOK /\ OnlineOK /\ NamedOK /\ WaitOK

LEMMA RightAlways == Spec => []RightOK
<1>1. Init => RightOK
  <2>1. Init => SoleOK /\ SaidOK /\ OnlineOK /\ NamedOK /\ WaitOK
    BY DEF Init, SoleOK, SaidOK, OnlineOK, NamedOK, WaitOK, WaitingOK, Holder, Running,
           Up
  <2>2. QED
    BY <2>1, InitLosers, InitGhost DEF RightOK
<1>2. ShapeOK /\ ShapeOK' /\ RightOK /\ [Next]_vars => RightOK'
  <2> SUFFICES ASSUME ShapeOK, ShapeOK', RightOK, [Next]_vars PROVE RightOK'
    OBVIOUS
  <2>1. LosersOK' /\ GhostOK' /\ SoleOK' /\ WaitOK'
    BY NextLosers, NextLastWords, NextBacked, NextSole, NextWait DEF RightOK, GhostOK
  <2>2. SaidOK' /\ OnlineOK' /\ NamedOK'
    BY NextSaid, NextOnline, NextNamed DEF RightOK, GhostOK
  <2>3. QED
    BY <2>1, <2>2 DEF RightOK
<1>3. QED
  BY <1>1, <1>2, ShapeAlways, PTL DEF Spec

\* Whatever breaks, messages are of the kinds their reader expects, in the order it
\* expects them in: a session opens with its CONNECT, publishes only for its bridge
\* and only once that has claimed the prefix, and ends with its DISCONNECT; a bridge
\* has a session exactly when its place says so; and a claim is one request and one
\* answer at a time (claim_run, on_connect, inspect_retained).
THEOREM SessionsWellFormed == Spec => [](TypeOK /\ PlaceOK /\ InboxOK /\ ClaimOK)
BY ShapeAlways, PTL DEF ShapeOK

\* Whatever breaks, and wherever in its claim, a bridge that never had the prefix
\* leaves no online record there, and an offline one only if its connection broke
\* while it claimed (mqtt.c: "only if the claim was successful"; cleanup_failed_init;
\* the will set by mqtt_claim.c).
THEOREM LosersNeverSeen == Spec => []LosersLeaveNoTrace
<1>1. RightOK => LosersLeaveNoTrace
  BY DEF RightOK, LosersOK
<1>2. QED
  BY <1>1, RightAlways, PTL

\* Whatever breaks, a bridge that is gone is online for nobody once the broker has
\* caught up, whether it resigned, was stopped, crashed or lost its connection, and
\* however soon it was back in between (rc_mqtt_free, the will set by mqtt_claim.c).
THEOREM GhostsNeverSeen == Spec => []NoGhost
<1>1. ShapeOK /\ RightOK => NoGhost
  BY GhostsGone DEF RightOK
<1>2. QED
  BY <1>1, ShapeAlways, RightAlways, PTL

\* Whatever breaks, once the broker has caught up a connected bridge that nobody
\* contends with is online for everybody with its latest render configuration,
\* through any losses and reconnections, unless an offline record of another session
\* came after its last, and a bridge that is gone is not online
\* (rc_mqtt_claim_publish_online, on_connect_cb, rc_mqtt_free).
THEOREM RecordAlwaysRight == Spec => []RecordRight
<1>1. ShapeOK /\ RightOK => RecordRight
  BY GhostsGone, OnlineOnce DEF RecordRight, RightOK, ShapeOK
<1>2. QED
  BY <1>1, ShapeAlways, RightAlways, PTL

\* Whatever breaks, the claim of a connected bridge is accepted next to another
\* connected one only while that one's own claim is still on its way to the broker,
\* or from there behind the message that settled it, or once another's offline
\* record has replaced it (claim_run, inspect_retained).
THEOREM ClaimsNeverShared == Spec => ClaimsExclusive
<1>1. ShapeOK /\ RightOK /\ [Next]_vars =>
        [ \A m, n \in Machine :
            /\ m # n /\ ~contended
            /\ phase[m] = "waiting" /\ phase'[m] = "up" /\ ~cut[conn[m]]
            /\ phase[n] = "up" /\ ~cut[conn[n]] /\ silenced[conn[n]] \subseteq {n}
            => \/ inbox[conn[n]] # <<>>
               \/ \E k \in 2 .. Len(mail[m]) : mail[m][k].record.who = n ]_vars
  BY ClaimsExcluded DEF RightOK
<1>2. QED
  BY <1>1, ShapeAlways, RightAlways, PTL DEF Spec, ClaimsExclusive
=============================================================================
