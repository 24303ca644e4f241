---------------------------- MODULE RelayTrunk ----------------------------
(***************************************************************************)
(* From the core to the phones.  The daemon keeps one connection to the    *)
(* relay, the trunk, over which it talks to all phones at once; the relay  *)
(* gives every frame of the trunk to every phone of the session, and every *)
(* frame of a phone to the trunk.  For the core a trunk is one client with *)
(* one sink.  The core is module CoreTask, what a phone keeps is module    *)
(* PhoneMirror; time stands still, so scores change by commands only.      *)
(*                                                                         *)
(* Either end of a connection learns of its loss in a step of its own.  A  *)
(* channel stands for the queue of the sender and the socket behind it.    *)
(***************************************************************************)
EXTENDS CoreTask, PhoneMirror

CONSTANTS
  Phones,
  NoPhone,
  Conns,          \* places for connections of phones to the relay
  PhoneCommands,  \* commands a phone sends: ack, dismiss, details, decisions
  SinkCap,        \* capacity of the channel from the core to a trunk
  WireCap,        \* capacity of the channel from a trunk to the relay
  ClientCap,      \* capacity of the channel from the relay to a phone
  MaxTrunks,      \* bound: trunks the daemon opens; the last one stays up
  MaxFaults,      \* bound: breaks of a phone's connection and restarts of
                  \* the daemon, together
  MaxRequests,    \* bound: commands each phone sends
  MaxAttempts,    \* bound: times each phone connects
  Patient         \* does the back-off of a phone outlast what is on its way?

ASSUME TrunkAssumption ==
  /\ NoPhone \notin Phones
  /\ Clients = 1..MaxTrunks
  /\ PhoneCommands \subseteq {"ack", "dismiss", "details"} \cup Decisions
  /\ {SinkCap, WireCap, ClientCap, MaxTrunks} \subseteq Nat \ {0}
  /\ {MaxFaults, MaxRequests, MaxAttempts} \subseteq Nat
  /\ Patient \in BOOLEAN

VARIABLES
  inbox,     \* what the trunks have sent to the core
  trunk,     \* the trunks, in the order opened
  host,      \* the trunk the relay takes for the host of the session, or 0
  conn,      \* the connections of phones to the relay
  phone,     \* the phones
  losses, restarts

core  == <<now, events, queue, open, commands, out>>
links == <<inbox, trunk, host, conn, phone, losses, restarts>>
relay == <<core, links>>

CoreIdle == out' = <<>> /\ UNCHANGED <<now, events, queue, open, commands>>

-----------------------------------------------------------------------------
Hello   == [type |-> "hello"]
Welcome == [type |-> "welcome"]
Close   == [type |-> "close"]

(* daemon and relay: is the end of the trunk there still up?  registered:  *)
(* does the core hold its sink?  relaying: the frame the relay is giving to*)
(* the connections in todo, one after the other.                           *)
NewTrunk ==
  [daemon |-> TRUE, relay |-> TRUE, cut |-> FALSE, registered |-> FALSE,
   sink |-> <<>>, wire |-> <<>>, up |-> <<>>, relaying |-> <<>>, todo |-> {}]

(* via is the trunk that hosted the session when the phone came; heard is  *)
(* history: the trunks the connection was given frames of.                 *)
NoConn == [phone |-> NoPhone, relay |-> "none", via |-> 0, heard |-> {},
           down |-> <<>>, up |-> <<>>]

NewPhone ==
  [status |-> "offline", conn |-> 0, attempts |-> 0, mirror |-> EmptyMirror,
   counter |-> 0, waiting |-> {}, answeredBy |-> {}]

Listed == {c \in Conns : conn[c].relay = "listed"}

(* Nothing is on its way between the core and the phones.                  *)
Drained ==
  /\ inbox = <<>>
  /\ \A k \in DOMAIN trunk :
       /\ trunk[k].sink = <<>> /\ trunk[k].wire = <<>> /\ trunk[k].up = <<>>
       /\ trunk[k].relaying = <<>>
  /\ \A c \in Conns : conn[c].down = <<>> /\ conn[c].up = <<>>

(* Until its handler has ended, the relay takes frames for the trunk.      *)
Accepts(k) == trunk[k].relay \/ trunk[k].todo # {}

-----------------------------------------------------------------------------
(* What the core hands to the sinks.  A reply carries the request id of the*)
(* command (and, for the properties, who sent it).                         *)

IsReply(m) == "to" \in DOMAIN m

IsFor(m, k) == IF IsReply(m) THEN m.to = k
               ELSE m.type = "respond_request" => m.from # k

Tagged(messages, tag) ==
  [i \in DOMAIN messages |->
     IF IsReply(messages[i]) THEN messages[i] @@ tag ELSE messages[i]]

(* A sink that is full or closed is dropped; what it holds is still sent.  *)
HandTo(t, messages) ==
  LET room == SinkCap - Len(t.sink) IN
  IF ~t.registered \/ messages = <<>> THEN t
  ELSE IF ~t.daemon THEN [t EXCEPT !.registered = FALSE]
  ELSE [t EXCEPT
          !.sink = @ \o SubSeq(messages, 1, Clamp(room, 0, Len(messages))),
          !.registered = Len(messages) <= room]

FanOut(tag) ==
  trunk' = [k \in DOMAIN trunk |->
              HandTo(trunk[k],
                SelectSeq(Tagged(out', tag), LAMBDA m : IsFor(m, k)))]

NoTag == [req |-> 0, by |-> NoPhone]

(* What reaches the core from the adapter side: events, and what became of *)
(* a decision that is off the command channel.                             *)
CorePushes ==
  /\ \/ AdapterEvent
     \/ \E id \in Ids(queue) :
          /\ InDelivery(queue, id)
          /\ \A i \in DOMAIN commands :
               commands[i].type = "respond" => commands[i].id # id
          /\ DeliveryFailed(id) \/ \E d \in Decisions : Delivered(id, d)
     \/ TakeCommand
  /\ FanOut(NoTag)
  /\ UNCHANGED <<inbox, host, conn, phone, losses, restarts>>

Handle(k, m) ==
  \/ m.type = "snapshot" /\ SendSnapshot(k)
  \/ m.type = "ack"      /\ ClientAck(k, m.id)
  \/ m.type = "dismiss"  /\ ClientDismiss(k, m.id)
  \/ m.type = "details"  /\ ClientDetails(k, m.id)
  \/ m.type \in Decisions /\ ClientRespond(k, m.id, m.type)

CoreTakes ==
  /\ inbox # <<>>
  /\ LET k == Head(inbox).trunk
         m == Head(inbox).message
     IN
     \/ /\ m.type \in {"connect", "disconnect"}
        /\ trunk' = [trunk EXCEPT ![k].registered = (m.type = "connect")]
        /\ CoreIdle
     \/ /\ Handle(k, m)
        /\ FanOut(IF m.type = "snapshot" THEN NoTag
                  ELSE [req |-> m.req, by |-> m.by])
  /\ inbox' = Tail(inbox)
  /\ UNCHANGED <<host, conn, phone, losses, restarts>>

ToCore(k, message) == Append(inbox, [trunk |-> k, message |-> message])

-----------------------------------------------------------------------------
(* The daemon's end of the trunk.                                          *)

(* A new trunk takes the session over, with the phones that are in it.     *)
DaemonConnects ==
  /\ Len(trunk) < MaxTrunks
  /\ \A k \in DOMAIN trunk : ~trunk[k].daemon
  /\ trunk' = Append(trunk, NewTrunk)
  /\ host' = Len(trunk')
  /\ inbox' = ToCore(host', [type |-> "connect"])
  /\ CoreIdle
  /\ UNCHANGED <<conn, phone, losses, restarts>>

OnWire(t, frame) == IF t.cut THEN t ELSE [t EXCEPT !.wire = Append(@, frame)]

DaemonPumps(k) ==
  /\ trunk[k].daemon
  /\ trunk[k].sink # <<>> /\ Len(trunk[k].wire) < WireCap
  /\ trunk' = [trunk EXCEPT ![k] =
                 [OnWire(@, Head(@.sink)) EXCEPT !.sink = Tail(@)]]
  /\ CoreIdle
  /\ UNCHANGED <<inbox, host, conn, phone, losses, restarts>>

(* The welcome overtakes what is still in the sink; the snapshot does not. *)
DaemonReads(k) ==
  /\ trunk[k].daemon /\ trunk[k].up # <<>>
  /\ LET m    == Head(trunk[k].up)
         read == [trunk[k] EXCEPT !.up = Tail(@)]
     IN
     IF m = Hello
     THEN /\ Len(trunk[k].wire) < WireCap
          /\ trunk' = [trunk EXCEPT ![k] = OnWire(read, Welcome)]
          /\ inbox' = ToCore(k, [type |-> "snapshot"])
     ELSE /\ trunk' = [trunk EXCEPT ![k] = read]
          /\ inbox' = ToCore(k, m)
  /\ CoreIdle
  /\ UNCHANGED <<host, conn, phone, losses, restarts>>

(* The trunk breaks; of what was on its way a part still arrives.          *)
TrunkBreaks(k) ==
  /\ k < MaxTrunks
  /\ trunk[k].daemon /\ ~trunk[k].cut
  /\ \E n \in 0..Len(trunk[k].wire) :
       trunk' = [trunk EXCEPT ![k].cut = TRUE, ![k].up = <<>>,
                              ![k].wire = SubSeq(@, 1, n)]
  /\ CoreIdle
  /\ UNCHANGED <<inbox, host, conn, phone, losses, restarts>>

DaemonNotices(k) ==
  /\ trunk[k].daemon /\ (trunk[k].cut \/ ~trunk[k].relay)
  /\ trunk' = [trunk EXCEPT ![k].daemon = FALSE, ![k].cut = TRUE,
                            ![k].sink = <<>>, ![k].up = <<>>]
  /\ inbox' = ToCore(k, [type |-> "disconnect"])
  /\ CoreIdle
  /\ UNCHANGED <<host, conn, phone, losses, restarts>>

(* Nothing survives a restart of the daemon, but the identifiers repeat:   *)
(* the generator starts from the same seed.                                *)
DaemonRestarts ==
  /\ losses + restarts < MaxFaults /\ Len(trunk) < MaxTrunks
  /\ restarts' = restarts + 1
  /\ trunk' = [k \in DOMAIN trunk |->
                 [trunk[k] EXCEPT !.daemon = FALSE, !.cut = TRUE, !.up = <<>>,
                                  !.sink = <<>>, !.registered = FALSE]]
  /\ inbox' = <<>>
  /\ now' = 0 /\ events' = <<>> /\ queue' = <<>>
  /\ open' = [t \in {} |-> NoTask]
  /\ commands' = <<>> /\ out' = <<>>
  /\ UNCHANGED <<host, conn, phone, losses>>

-----------------------------------------------------------------------------
(* The relay.                                                              *)

RelayReads(k) ==
  /\ trunk[k].relay /\ trunk[k].wire # <<>> /\ trunk[k].relaying = <<>>
  /\ trunk' = [trunk EXCEPT
                 ![k].wire = Tail(@),
                 ![k].relaying = IF Listed = {} THEN <<>>
                                 ELSE <<Head(trunk[k].wire)>>,
                 ![k].todo = Listed]
  /\ CoreIdle
  /\ UNCHANGED <<inbox, host, conn, phone, losses, restarts>>

RelaySends_Dropping(k, c) ==   \* variant: a full channel is passed over
  /\ c \in trunk[k].todo
  /\ conn' = IF conn[c].relay = "none" \/ conn[c].phone = NoPhone
                  \/ Len(conn[c].down) >= ClientCap THEN conn
             ELSE [conn EXCEPT ![c].down = @ \o trunk[k].relaying,
                               ![c].heard =
                                   IF trunk[k].relay THEN @ \cup {k} ELSE @]
  /\ trunk' = [trunk EXCEPT ![k].todo = @ \ {c},
                            ![k].relaying = IF trunk[k].todo = {c} THEN <<>>
                                            ELSE @]
  /\ CoreIdle
  /\ UNCHANGED <<inbox, host, phone, losses, restarts>>

(* The relay waits for room; a connection that has ended takes anything.   *)
RelaySends(k, c) ==
  LET closed == conn[c].relay = "none" \/ conn[c].phone = NoPhone IN
  /\ c \in trunk[k].todo
  /\ closed \/ Len(conn[c].down) < ClientCap
  /\ conn' = IF closed THEN conn
             ELSE [conn EXCEPT ![c].down = @ \o trunk[k].relaying,
                                 ![c].heard =
                                   IF trunk[k].relay THEN @ \cup {k} ELSE @]
  /\ trunk' = [trunk EXCEPT ![k].todo = @ \ {c},
                            ![k].relaying = IF trunk[k].todo = {c} THEN <<>>
                                            ELSE @]
  /\ CoreIdle
  /\ UNCHANGED <<inbox, host, phone, losses, restarts>>

(* The relay finds the trunk gone.  If it is the one that hosts the session*)
(* the phones are told to go, otherwise they are the business of another.  *)
RelayNotices(k) ==
  /\ trunk[k].relay /\ trunk[k].cut
  /\ trunk[k].wire = <<>> /\ trunk[k].relaying = <<>>
  /\ IF host = k
     THEN /\ host' = 0
          /\ conn' = [c \in Conns |-> IF c \in Listed
                        THEN [conn[c] EXCEPT !.relay = "unlisted"] ELSE conn[c]]
          /\ trunk' = [trunk EXCEPT
                         ![k].relay = FALSE, ![k].todo = Listed,
                         ![k].relaying = IF Listed = {} THEN <<>> ELSE <<Close>>]
     ELSE /\ trunk' = [trunk EXCEPT ![k].relay = FALSE]
          /\ UNCHANGED <<host, conn>>
  /\ CoreIdle
  /\ UNCHANGED <<inbox, phone, losses, restarts>>

(* Between the check that a host is there and the listing of the phone the *)
(* lock is released.                                                       *)
RelayLists(c) ==
  /\ conn[c].relay = "checked"
  /\ conn' = [conn EXCEPT ![c].relay = "listed"]
  /\ CoreIdle
  /\ UNCHANGED <<inbox, trunk, host, phone, losses, restarts>>

(* A frame of the phone goes to the trunk that hosted the session when the *)
(* phone came; if that one has ended, so does the connection.              *)
RelayForwards(c) ==
  LET k == conn[c].via IN
  /\ conn[c].relay \in {"listed", "unlisted"} /\ conn[c].up # <<>>
  /\ IF Accepts(k)
     THEN /\ conn' = [conn EXCEPT ![c].up = Tail(@)]
          /\ trunk' = IF trunk[k].cut THEN trunk
                      ELSE [trunk EXCEPT ![k].up = Append(@, Head(conn[c].up))]
     ELSE /\ conn' = [conn EXCEPT ![c] = [@ EXCEPT
                        !.relay = "none", !.up = <<>>,
                        !.down = IF conn[c].phone = NoPhone THEN <<>>
                                 ELSE <<Close>>]]
          /\ UNCHANGED trunk
  /\ CoreIdle
  /\ UNCHANGED <<inbox, host, phone, losses, restarts>>

(* The relay finds that the phone has gone.                                *)
RelayLetsGo(c) ==
  /\ conn[c].relay \in {"listed", "unlisted"} /\ conn[c].phone = NoPhone
  /\ conn' = [conn EXCEPT ![c] = NoConn]
  /\ CoreIdle
  /\ UNCHANGED <<inbox, trunk, host, phone, losses, restarts>>

-----------------------------------------------------------------------------
(* The phone.                                                              *)

PhoneConnects(p) ==
  /\ phone[p].status = "offline" /\ host # 0
  /\ phone[p].attempts < MaxAttempts
  /\ Patient => Drained
  /\ \E c \in Conns :
       /\ conn[c].phone = NoPhone /\ conn[c].relay = "none"
       /\ \A k \in DOMAIN trunk : c \notin trunk[k].todo
       /\ conn' = [conn EXCEPT ![c] =
                     [phone |-> p, relay |-> "checked", via |-> host,
                      heard |-> {}, down |-> <<>>, up |-> <<Hello>>]]
       /\ phone' = [phone EXCEPT ![p].status = "authenticating",
                                 ![p].conn = c, ![p].attempts = @ + 1]
  /\ CoreIdle
  /\ UNCHANGED <<inbox, trunk, host, losses, restarts>>

(* The phone closes its end, gives up on the answers it waits for, and     *)
(* connects again later.  It keeps its mirror.                             *)
Offline(state) == [state EXCEPT !.status = "offline", !.conn = 0,
                                !.waiting = {}]

Left(c) == IF conn[c].relay = "none" THEN NoConn
           ELSE [conn[c] EXCEPT !.phone = NoPhone, !.down = <<>>]

Answered(state, m) ==
  IF IsReply(m) /\ m.req \in state.waiting
  THEN [state EXCEPT !.waiting = @ \ {m.req}, !.answeredBy = @ \cup {m.by}]
  ELSE state

Expects(status, m) ==
  CASE status = "authenticating" -> m.type = "welcome"
    [] status = "welcomed"       -> m.type = "snapshot"
    [] status = "connected"      -> m.type # "close"

Took(state, m) ==
  CASE state.status = "authenticating" -> [state EXCEPT !.status = "welcomed"]
    [] state.status = "welcomed" ->
         [state EXCEPT !.status = "connected",
                       !.mirror = ApplySnapshot(@, m)]
    [] state.status = "connected" ->
         [Answered(state, m) EXCEPT !.mirror = ApplyMessage(@, m)]

PhoneReads(p) ==
  LET c == phone[p].conn
      m == Head(conn[c].down)
  IN
  /\ c # 0 /\ conn[c].down # <<>>
  /\ IF Expects(phone[p].status, m)
     THEN /\ phone' = [phone EXCEPT ![p] = Took(@, m)]
          /\ conn' = [conn EXCEPT ![c].down = Tail(@)]
     ELSE /\ phone' = [phone EXCEPT ![p] = Offline(@)]
          /\ conn' = [conn EXCEPT ![c] = Left(c)]
  /\ CoreIdle
  /\ UNCHANGED <<inbox, trunk, host, losses, restarts>>

PhoneLoses(p) ==
  /\ losses + restarts < MaxFaults /\ phone[p].conn # 0
  /\ losses' = losses + 1
  /\ phone' = [phone EXCEPT ![p] = Offline(@)]
  /\ conn' = [conn EXCEPT ![phone[p].conn] = Left(phone[p].conn)]
  /\ CoreIdle
  /\ UNCHANGED <<inbox, trunk, host, restarts>>

PhoneAsks(p) ==
  LET req == phone[p].counter + 1
      c   == phone[p].conn
  IN
  /\ phone[p].status = "connected" /\ phone[p].counter < MaxRequests
  /\ \E type \in PhoneCommands, id \in DOMAIN phone[p].mirror.queue :
       /\ IF type \in Decisions THEN id \in PendingRequests(phone[p].mirror)
          ELSE ShouldDisplay(phone[p].mirror, id)
       /\ conn' = [conn EXCEPT ![c].up =
                     Append(@, [type |-> type, id |-> id, req |-> req,
                                by |-> p])]
  /\ phone' = [phone EXCEPT ![p].counter = req,
                            ![p].waiting = @ \cup {req}]
  /\ CoreIdle
  /\ UNCHANGED <<inbox, trunk, host, losses, restarts>>

(* No answer within five seconds.                                          *)
PhoneGivesUp(p) ==
  /\ \E req \in phone[p].waiting :
       phone' = [phone EXCEPT ![p].waiting = @ \ {req}]
  /\ CoreIdle
  /\ UNCHANGED <<inbox, trunk, host, conn, losses, restarts>>

-----------------------------------------------------------------------------
RelayInit ==
  /\ Init
  /\ inbox = <<>> /\ trunk = <<>> /\ host = 0
  /\ conn = [c \in Conns |-> NoConn]
  /\ phone = [p \in Phones |-> NewPhone]
  /\ losses = 0 /\ restarts = 0

CoreStep == CorePushes \/ CoreTakes

TrunkStep(k) == DaemonPumps(k) \/ DaemonReads(k) \/ DaemonNotices(k)
                  \/ RelayReads(k) \/ RelayNotices(k)
                  \/ \E c \in Conns : RelaySends(k, c)

ConnStep(c) == RelayLists(c) \/ RelayForwards(c) \/ RelayLetsGo(c)

PhoneStep(p) == PhoneConnects(p) \/ PhoneReads(p)

RelayNext ==
  \/ CoreStep
  \/ DaemonConnects
  \/ DaemonRestarts
  \/ \E k \in DOMAIN trunk : TrunkStep(k) \/ TrunkBreaks(k)
  \/ \E c \in Conns : ConnStep(c)
  \/ \E p \in Phones :
       PhoneStep(p) \/ PhoneLoses(p) \/ PhoneAsks(p) \/ PhoneGivesUp(p)

RelaySpec == RelayInit /\ [][RelayNext]_relay

(* Every handler is a task of its runtime, and the daemon and the phones   *)
(* reconnect on a timer.  That anything happens to the agent, that a       *)
(* connection breaks or that a phone asks for something is not assumed; nor*)
(* that either end of a trunk finds out that it is lost, for neither sends *)
(* pings or reads with a limit.  A phone that has gone and is never let go *)
(* is written to in vain; letting it go only frees its place in Conns, of  *)
(* which the code has as many as it needs.                                 *)
RelayFairSpec ==
  /\ RelaySpec
  /\ WF_relay(CoreTakes) /\ WF_relay(DaemonConnects)
  /\ \A k \in 1..MaxTrunks :
       /\ WF_relay(k \in DOMAIN trunk /\ DaemonPumps(k))
       /\ WF_relay(k \in DOMAIN trunk /\ DaemonReads(k))
       /\ WF_relay(k \in DOMAIN trunk /\ RelayReads(k))
       /\ \A c \in Conns : WF_relay(k \in DOMAIN trunk /\ RelaySends(k, c))
  /\ \A c \in Conns : WF_relay(RelayLists(c)) /\ WF_relay(RelayForwards(c))
                        /\ WF_relay(RelayLetsGo(c))
  /\ \A p \in Phones : WF_relay(PhoneConnects(p)) /\ WF_relay(PhoneReads(p))

-----------------------------------------------------------------------------
(* Served(p): the phone is connected, the relay gives it what the trunk of *)
(* the session brings, and that trunk is whole.                            *)
Served(p) ==
  /\ phone[p].status = "connected" /\ conn[phone[p].conn].relay = "listed"
  /\ host # 0 /\ ~trunk[host].cut

ShowsQueue(p) ==
  LET shown == phone[p].mirror.queue IN
  /\ \A id \in Ids(queue) : IsLive(queue[id]) => id \in DOMAIN shown
  /\ \A id \in DOMAIN shown : id \in Ids(queue) /\ shown[id] = queue[id]
  /\ restarts = 0 =>
       \A id \in DOMAIN shown : phone[p].mirror.events[id] = events[id]

(* OneTrunkShowsQueue: a phone whose connection was given the frames of one*)
(* trunk only, the one that hosts the session and whose sink never         *)
(* overflowed, shows the queue as soon as nothing is on its way: every live*)
(* entry, and every entry as it is.  It holds across reconnections of the  *)
(* phone, new trunks and restarts, though each loses messages.  The events *)
(* it shows are theirs only until the daemon restarts: the identifiers are *)
(* then drawn again, and a phone keeps the events it knows.                *)
OneTrunkShowsQueue ==
  Drained => \A p \in Phones :
    /\ Served(p)
    /\ conn[phone[p].conn].heard = {host}
    /\ trunk[host].registered
    => ShowsQueue(p)

(* NobodyLeftBehind: a phone that the relay has struck off the list when   *)
(* the trunk ended has been told to go, or is about to be; none is left    *)
(* holding a connection that nobody will write to again.                   *)
NobodyLeftBehind ==
  \A c \in Conns :
    conn[c].relay = "unlisted" /\ conn[c].phone # NoPhone =>
      \/ Contains(conn[c].down, Close)
      \/ \E k \in DOMAIN trunk :
           c \in trunk[k].todo /\ trunk[k].relaying = <<Close>>

(* PhoneReturns: again and again each phone is connected, but for three    *)
(* cases: the session has passed to another trunk than the one the phone's *)
(* hello was given to, and nothing tells the phone that it was lost; the   *)
(* core has dropped the sink of the trunk, and the snapshot with it; or the*)
(* trunk is lost and the daemon, which hears nothing on it, holds on to it.*)
Forsaken(p) ==
  /\ phone[p].status \in {"authenticating", "welcomed"}
  /\ conn[phone[p].conn].via # host

Unnoticed == \E k \in DOMAIN trunk : trunk[k].daemon /\ trunk[k].cut

PhoneReturns ==
  \A p \in Phones :
    []<>(\/ phone[p].status = "connected"
         \/ Forsaken(p)
         \/ host # 0 /\ ~trunk[host].registered
         \/ Unnoticed)

-----------------------------------------------------------------------------
(* What the documents and comments say and the code does not do.           *)

(* AlwaysShowsQueue: what happened while a phone could not be reached is in*)
(* the next snapshot, so a phone that is served shows the queue.  Not so   *)
(* for a phone that a new trunk finds in the session: it gets no snapshot. *)
AlwaysShowsQueue == Drained => \A p \in Phones : Served(p) => ShowsQueue(p)

(* RepliesOwn: a phone takes for the answer to its command only the answer *)
(* to its command.  All phones share a trunk, every frame goes to all of   *)
(* them, and each numbers its commands from one.                           *)
RepliesOwn == \A p \in Phones : phone[p].answeredBy \subseteq {p}

=============================================================================
