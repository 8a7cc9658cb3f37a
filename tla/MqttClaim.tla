----------------------------- MODULE MqttClaim -----------------------------
(***************************************************************************)
(* Bridges that were given the same topic prefix, and the retained record   *)
(* at <prefix>availability by which each claims it (dbus-mqtt-bridge's      *)
(* mqtt_claim.c and mqtt.c).  A bridge hands the broker an offline record   *)
(* as its will when it connects, looks at the record retained, publishes an *)
(* online record of its own if that is free, and again after every          *)
(* reconnection.                                                           *)
(*                                                                         *)
(* The broker and the network are external: a connection is a queue of what *)
(* the broker has yet to read, and when it breaks the end of that queue is  *)
(* lost and either side finds out on its own.  Every mosquitto_connect is a *)
(* session of its own, as client ids are the broker's.  A round trip takes  *)
(* less than CLAIM_WAIT_MS.                                                 *)
(***************************************************************************)
EXTENDS SequencesExt

CONSTANTS
  Machine,       \* the machines whose bridges share the prefix
  Nobody,        \* no machine's id
  Cfg, NoCfg,    \* render configurations; none
  MaxSessions    \* bound on connections in a behaviour

ASSUME MachineAssumption == Nobody \notin Machine /\ NoCfg \notin Cfg
ASSUME SessionAssumption == MaxSessions \in Nat

VARIABLES
  record,      \* retained at <prefix>availability
  opened,      \* how many sessions there have been
  owner,       \* whose each session was
  broker,      \* the broker's view of it: "new", "open" with a will, "closed"
  cut,         \* its connection is gone
  inbox,       \* what the broker has yet to read of it

  phase,       \* each bridge's place
  conn,        \* its session, 0 when it knows of none
  mail,        \* what it has yet to read, as far as it listens
  subscribed,  \* the broker has read the subscription of its claim
  cfg,         \* render_cfg

  served,      \* history: the sessions of bridges that had claimed the prefix
  torn,        \* history: the sessions that broke without it
  silenced,    \* history: whose offline records came after a session's last
  contended    \* history: a claim was accepted next to another bridge's

sessionVars == <<opened, owner, broker, cut, inbox>>
bridgeVars == <<phase, conn, mail, subscribed, cfg>>
historyVars == <<served, torn, silenced, contended>>
vars == <<record, sessionVars, bridgeVars, historyVars>>

Session == 1 .. MaxSessions

\* What is retained.  An empty payload clears the record.
Free == [who |-> Nobody, state |-> "none", cfg |-> NoCfg]
Online(m, c) == [who |-> m, state |-> "online", cfg |-> c]
Offline(m) == [who |-> m, state |-> "offline", cfg |-> NoCfg]
Record == {Free} \cup {Offline(m) : m \in Machine}
                 \cup {Online(m, c) : m \in Machine, c \in Cfg \cup {NoCfg}}

Connect == [op |-> "connect"]
Subscribe == [op |-> "subscribe"]
Disconnect == [op |-> "disconnect"]
Publish(r) == [op |-> "publish", record |-> r]
Connack == [op |-> "connack"]

Phases == {"down", "connecting", "waiting", "up", "lost", "reconnecting"}
Claiming(m) == phase[m] \in {"connecting", "waiting"}
Running(m) == phase[m] \in {"up", "lost", "reconnecting"}

\* inspect_retained: whose record keeps m from claiming.  Nobody reads its state.
Conflicts(r, m) == r.who \notin {Nobody, m}

Init ==
  /\ record = Free
  /\ opened = 0
  /\ owner = [i \in Session |-> Nobody]
  /\ broker = [i \in Session |-> "closed"]
  /\ cut = [i \in Session |-> FALSE]
  /\ inbox = [i \in Session |-> <<>>]
  /\ phase = [m \in Machine |-> "down"]
  /\ conn = [m \in Machine |-> 0]
  /\ mail = [m \in Machine |-> <<>>]
  /\ subscribed = [m \in Machine |-> FALSE]
  /\ cfg = [m \in Machine |-> NoCfg]
  /\ served = {}
  /\ torn = {}
  /\ silenced = [i \in Session |-> {}]
  /\ contended = FALSE

-----------------------------------------------------------------------------
(* The network. *)

\* m's side of a new TCP connection: its CONNECT, with the will, is on its way.
Opens(m) ==
  /\ opened < MaxSessions
  /\ opened' = opened + 1
  /\ owner' = [owner EXCEPT ![opened'] = m]
  /\ broker' = [broker EXCEPT ![opened'] = "new"]
  /\ inbox' = [inbox EXCEPT ![opened'] = <<Connect>>]
  /\ conn' = [conn EXCEPT ![m] = opened']
  /\ UNCHANGED cut

\* m sends messages, into the void if the connection is gone.
Sends(m, messages) ==
  inbox' = IF conn[m] = 0 \/ cut[conn[m]] THEN inbox
           ELSE [inbox EXCEPT ![conn[m]] = @ \o messages]

\* The end of what was on its way is lost with a connection.
Breaks(i) ==
  /\ broker[i] # "closed" /\ ~cut[i]
  /\ cut' = [cut EXCEPT ![i] = TRUE]
  /\ torn' = torn \cup ({i} \ served)
  /\ \E rest \in Prefixes(inbox[i]) : inbox' = [inbox EXCEPT ![i] = rest]

LosesConnection(i) ==
  /\ Breaks(i)
  /\ IF conn[owner[i]] = i
     THEN \E rest \in Prefixes(mail[owner[i]]) :
            mail' = [mail EXCEPT ![owner[i]] = rest]
     ELSE UNCHANGED mail
  /\ UNCHANGED <<record, opened, owner, broker, phase, conn, subscribed, cfg,
                 served, silenced, contended>>

-----------------------------------------------------------------------------
(* The broker. *)

\* Messages for the bridge whose session i is, if it is still there.
Answers(i, messages) ==
  mail' = IF conn[owner[i]] = i /\ ~cut[i]
          THEN [mail EXCEPT ![owner[i]] = @ \o messages] ELSE mail

\* The record is replaced and sent to the bridges that are looking at it.
Retains(r) ==
  /\ record' = r
  /\ mail' = [m \in Machine |->
                IF subscribed[m] /\ ~cut[conn[m]] THEN Append(mail[m], Publish(r))
                                                  ELSE mail[m]]

\* Session i's record is the last; an offline one replaces those of the others.
Silences(i, r) ==
  [j \in Session |->
     IF j = i THEN {}
     ELSE IF r.state = "offline" /\ j \in served /\ broker[j] # "closed"
     THEN silenced[j] \cup {r.who}
     ELSE silenced[j]]

Reads(i, op) ==
  /\ broker[i] # "closed"
  /\ inbox[i] # <<>>
  /\ Head(inbox[i]).op = op
  /\ inbox' = [inbox EXCEPT ![i] = Tail(@)]
  /\ UNCHANGED <<opened, owner, cut, phase, conn, cfg, served, torn, contended>>

ReadsConnect(i) ==
  /\ Reads(i, "connect")
  /\ broker' = [broker EXCEPT ![i] = "open"]
  /\ Answers(i, <<Connack>>)
  /\ UNCHANGED <<record, subscribed, silenced>>

ReadsSubscribe(i) ==
  /\ Reads(i, "subscribe")
  /\ IF conn[owner[i]] = i /\ ~cut[i]
     THEN subscribed' = [subscribed EXCEPT ![owner[i]] = TRUE]
     ELSE UNCHANGED subscribed
  /\ Answers(i, IF record = Free THEN <<>> ELSE <<Publish(record)>>)
  /\ UNCHANGED <<record, broker, silenced>>

ReadsPublish(i) ==
  /\ Reads(i, "publish")
  /\ Retains(Head(inbox[i]).record)
  /\ silenced' = Silences(i, Head(inbox[i]).record)
  /\ UNCHANGED <<broker, subscribed>>

\* An orderly end discards the will.
ReadsDisconnect(i) ==
  /\ Reads(i, "disconnect")
  /\ broker' = [broker EXCEPT ![i] = "closed"]
  /\ UNCHANGED <<record, mail, subscribed, silenced>>

\* Any other end publishes it, whether or not the bridge had claimed anything.
MissesSession(i) ==
  /\ cut[i] /\ inbox[i] = <<>>
  /\ broker[i] # "closed"
  /\ broker' = [broker EXCEPT ![i] = "closed"]
  /\ IF broker[i] = "open"
     THEN /\ Retains(Offline(owner[i]))
          /\ silenced' = Silences(i, Offline(owner[i]))
     ELSE UNCHANGED <<record, mail, silenced>>
  /\ UNCHANGED <<opened, owner, cut, inbox, phase, conn, subscribed, cfg,
                 served, torn, contended>>

BrokerStep(i) ==
  \/ ReadsConnect(i) \/ ReadsSubscribe(i) \/ ReadsPublish(i) \/ ReadsDisconnect(i)
  \/ MissesSession(i)

\* Somebody frees the prefix of a machine that the broker knows to be gone.
UserClears ==
  /\ record.state = "offline"
  /\ \A i \in Session : owner[i] = record.who => broker[i] = "closed"
  /\ Retains(Free)
  /\ UNCHANGED <<sessionVars, phase, conn, subscribed, cfg, historyVars>>

-----------------------------------------------------------------------------
(* A bridge: the claim. *)

Starts(m) ==
  /\ phase[m] = "down"
  /\ Opens(m)
  /\ phase' = [phase EXCEPT ![m] = "connecting"]
  /\ cfg' = [cfg EXCEPT ![m] = NoCfg]
  /\ UNCHANGED <<record, mail, subscribed, historyVars>>

\* on_connect
LooksAtRecord(m) ==
  /\ phase[m] = "connecting"
  /\ mail[m] # <<>>
  /\ mail' = [mail EXCEPT ![m] = Tail(@)]
  /\ Sends(m, <<Subscribe>>)
  /\ phase' = [phase EXCEPT ![m] = "waiting"]
  /\ UNCHANGED <<record, opened, owner, broker, cut, conn, subscribed, cfg,
                 historyVars>>

\* The bridge goes for good with this process.
Ends(m) ==
  /\ phase' = [phase EXCEPT ![m] = "down"]
  /\ conn' = [conn EXCEPT ![m] = 0]
  /\ mail' = [mail EXCEPT ![m] = <<>>]
  /\ subscribed' = [subscribed EXCEPT ![m] = FALSE]
  /\ UNCHANGED <<record, opened, owner, broker, cfg, served, silenced, contended>>

\* Mutant of Resigns: the socket is closed without a DISCONNECT.
ResignsRudely(m) ==
  /\ UNCHANGED <<inbox, torn>>
  /\ cut' = IF conn[m] = 0 THEN cut ELSE [cut EXCEPT ![conn[m]] = TRUE]
  /\ Ends(m)

\* cleanup_failed_init
Resigns(m) ==
  /\ Sends(m, <<Disconnect>>)
  /\ UNCHANGED <<cut, torn>>
  /\ Ends(m)

\* Another bridge has the prefix, or had it and the broker has yet to miss it.
Contends(m) ==
  \/ \E n \in Machine \ {m} : Running(n)
  \/ \E i \in served : owner[i] # m /\ broker[i] # "closed"

\* The rest of claim_run and of rc_mqtt_init; on_message_cb will ignore what
\* still comes for the record.
Accepts(m) ==
  /\ Sends(m, <<Publish(Online(m, cfg[m]))>>)
  /\ phase' = [phase EXCEPT ![m] = "up"]
  /\ mail' = [mail EXCEPT ![m] = <<>>]
  /\ subscribed' = [subscribed EXCEPT ![m] = FALSE]
  /\ served' = served \cup {conn[m]}
  /\ contended' = (contended \/ Contends(m))
  /\ UNCHANGED <<record, opened, owner, broker, cut, conn, cfg, torn, silenced>>

\* The first message settles it.
Inspects(m) ==
  /\ phase[m] = "waiting"
  /\ mail[m] # <<>>
  /\ IF Conflicts(Head(mail[m]).record, m) THEN Resigns(m) ELSE Accepts(m)

\* Mutant of WindowEnds: the window is over before an answer can come.
WindowEndsEarly(m) ==
  /\ phase[m] = "waiting"
  /\ mail[m] = <<>>
  /\ Accepts(m)

\* None came in CLAIM_WAIT_MS.
WindowEnds(m) ==
  /\ phase[m] = "waiting"
  /\ mail[m] = <<>>
  /\ cut[conn[m]] \/ inbox[conn[m]] = <<>>
  /\ Accepts(m)

\* The broker refuses the connection, it is lost, or CLAIM_TOTAL_TIMEOUT_S pass.
GivesUp(m) == Claiming(m) /\ Resigns(m)

-----------------------------------------------------------------------------
(* A bridge: the claimed prefix. *)

NoticesLoss(m) ==
  /\ Running(m) /\ conn[m] # 0
  /\ cut[conn[m]]
  /\ phase' = [phase EXCEPT ![m] = "lost"]
  /\ conn' = [conn EXCEPT ![m] = 0]
  /\ mail' = [mail EXCEPT ![m] = <<>>]
  /\ subscribed' = [subscribed EXCEPT ![m] = FALSE]
  /\ UNCHANGED <<record, sessionVars, cfg, historyVars>>

\* try_connect
Reconnects(m) ==
  /\ phase[m] = "lost"
  /\ Opens(m)
  /\ phase' = [phase EXCEPT ![m] = "reconnecting"]
  /\ served' = served \cup {opened'}
  /\ UNCHANGED <<record, mail, subscribed, cfg, torn, silenced, contended>>

\* Mutant of Resumes: a reconnection publishes nothing.
ResumesQuietly(m) ==
  /\ phase[m] = "reconnecting"
  /\ mail[m] # <<>>
  /\ mail' = [mail EXCEPT ![m] = <<>>]
  /\ phase' = [phase EXCEPT ![m] = "up"]
  /\ UNCHANGED <<record, sessionVars, conn, subscribed, cfg, historyVars>>

\* on_connect_cb
Resumes(m) ==
  /\ phase[m] = "reconnecting"
  /\ mail[m] # <<>>
  /\ mail' = [mail EXCEPT ![m] = <<>>]
  /\ Sends(m, <<Publish(Online(m, cfg[m]))>>)
  /\ phase' = [phase EXCEPT ![m] = "up"]
  /\ UNCHANGED <<record, opened, owner, broker, cut, conn, subscribed, cfg,
                 historyVars>>

\* DisplayingPhoto with a render configuration other than the last.
SetsRenderCfg(m, c) ==
  /\ Running(m)
  /\ c # cfg[m]
  /\ cfg' = [cfg EXCEPT ![m] = c]
  /\ Sends(m, <<Publish(Online(m, c))>>)
  /\ UNCHANGED <<record, opened, owner, broker, cut, phase, conn, mail, subscribed,
                 historyVars>>

\* SIGTERM: rc_mqtt_free
Stops(m) ==
  /\ Running(m)
  /\ Sends(m, <<Publish(Offline(m)), Disconnect>>)
  /\ UNCHANGED <<cut, torn>>
  /\ Ends(m)

\* The process or the machine dies; its connection breaks, if it had one.
Crashes(m) ==
  /\ phase[m] # "down"
  /\ IF conn[m] = 0 \/ cut[conn[m]] THEN UNCHANGED <<cut, inbox, torn>>
                                    ELSE Breaks(conn[m])
  /\ Ends(m)

BridgeStep(m) ==
  \/ Starts(m) \/ LooksAtRecord(m) \/ Inspects(m) \/ WindowEnds(m) \/ GivesUp(m)
  \/ NoticesLoss(m) \/ Reconnects(m) \/ Resumes(m)
  \/ \E c \in Cfg : SetsRenderCfg(m, c)
  \/ Stops(m) \/ Crashes(m)

Next ==
  \/ \E m \in Machine : BridgeStep(m)
  \/ \E i \in Session : BrokerStep(i) \/ LosesConnection(i)
  \/ UserClears

Spec == Init /\ [][Next]_vars

-----------------------------------------------------------------------------
(* Properties. *)

Message == {Connect, Subscribe, Disconnect, Connack} \cup {Publish(r) : r \in Record}

\* Every variable keeps its type.
TypeOK ==
  /\ record \in Record
  /\ opened \in 0 .. MaxSessions
  /\ owner \in [Session -> Machine \cup {Nobody}]
  /\ broker \in [Session -> {"new", "open", "closed"}]
  /\ cut \in [Session -> BOOLEAN]
  /\ inbox \in [Session -> Seq(Message)]
  /\ phase \in [Machine -> Phases]
  /\ conn \in [Machine -> 0 .. MaxSessions]
  /\ mail \in [Machine -> Seq(Message)]
  /\ subscribed \in [Machine -> BOOLEAN]
  /\ cfg \in [Machine -> Cfg \cup {NoCfg}]
  /\ served \subseteq Session
  /\ torn \subseteq Session
  /\ silenced \in [Session -> SUBSET Machine]
  /\ contended \in BOOLEAN

\* The broker has read all there is and knows which connections are gone.
Quiet == \A i \in Session : broker[i] = "closed" \/ (~cut[i] /\ inbox[i] = <<>>)

\* A connected bridge that nobody contends with is online for everybody, with its
\* latest render configuration, through any losses and reconnections, unless an
\* offline record of another session came after its last (mqtt_claim.h,
\* rc_mqtt_claim_publish_online).
OnlineWhenQuiet ==
  Quiet /\ ~contended =>
    \A m \in Machine :
      phase[m] = "up" /\ ~cut[conn[m]] /\ silenced[conn[m]] = {} =>
        record = Online(m, cfg[m])

\* A bridge that is gone, however it went, is not online for anybody.
NoGhost ==
  Quiet => \A m \in Machine : phase[m] = "down" =>
    ~(record.who = m /\ record.state = "online")

\* Once the broker has caught up, the record is right about everybody: online for
\* the bridge that is connected, not online for one that is gone.
RecordRight == TypeOK /\ OnlineWhenQuiet /\ NoGhost

\* A claim is accepted next to a connected bridge only if that one's own claim is
\* still on its way to the broker, or from there behind the message that settled it:
\* whoever looks later finds it, but over a connection that is gone, or once the
\* will of another bridge replaced it (mqtt_claim.h, rc_mqtt_claim_run).
ClaimsExclusive ==
  [][ \A m, n \in Machine :
        /\ m # n /\ ~contended
        /\ phase[m] = "waiting" /\ phase'[m] = "up" /\ ~cut[conn[m]]
        /\ phase[n] = "up" /\ ~cut[conn[n]] /\ silenced[conn[n]] \subseteq {n}
        => \/ inbox[conn[n]] # <<>>
           \/ \E k \in 2 .. Len(mail[m]) : mail[m][k].record.who = n ]_vars

\* A bridge that never had the prefix leaves no record there (mqtt.c: "only if the
\* claim was successful"), but for the offline one that was its will if its connection
\* broke while it claimed.
LosersLeaveNoTrace ==
  \/ record.who \in {Nobody} \cup {owner[i] : i \in served}
  \/ record.state = "offline" /\ \E i \in torn : owner[i] = record.who
=============================================================================
