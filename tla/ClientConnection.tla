-------------------------- MODULE ClientConnection --------------------------
(***************************************************************************)
(* The clients that connect to the server on the laptop itself.  Each      *)
(* connection is a task of its own.  It registers a sink with the core, and*)
(* from then on whatever the core broadcasts goes into its channel; it     *)
(* writes a welcome, has the core put a snapshot into the channel, and then*)
(* writes what is there and forwards what the client asks.  The core waits *)
(* for nobody: of a client whose channel is full it drops the sink.        *)
(*                                                                         *)
(* Of the queue only is told how often it has changed: every message of the*)
(* core carries that number, and an update is one change.  Frames that are *)
(* not the core's, the welcome, errors and the close, are written, but what*)
(* the client makes of them is not followed.                               *)
(***************************************************************************)
EXTENDS Naturals, Sequences, FiniteSets

CONSTANTS
  InboxCap,     \* capacity of the channel to the core
  OutboundCap,  \* capacity of the channel of a connection
  WireCap,      \* what the network takes before a writer has to wait
  MaxClients,   \* bound: connections accepted
  MaxChanges,   \* bound: changes of the queue
  MaxAsks       \* bound: frames of clients

ASSUME ConnectionAssumption ==
  /\ InboxCap \in Nat \ {0} /\ OutboundCap \in Nat \ {0}
  /\ WireCap \in Nat \ {0}
  /\ MaxClients \in Nat /\ MaxChanges \in Nat /\ MaxAsks \in Nat

VARIABLES
  accepted,     \* the last client id given
  inbox,        \* commands for the core
  sinks,        \* clients the core has a sink of
  changes,      \* how often the queue has changed
  telling,      \* what the core has still to send of the step it is in
  at,           \* where the task of each connection is
  outbound,     \* the channel of each connection
  held,         \* what each has taken from it and is writing
  notified,     \* has the task been notified that its channel was full?
  shown,        \* clients the status shows as connected
  wire,         \* what is written and the client has not read
  left,         \* clients that are gone
  seen,         \* the message of the core each has read last, if any
  asks,         \* how often clients have asked
  overflowed    \* history: clients whose channel was full once

core  == <<inbox, sinks, changes, telling>>
tasks == <<at, outbound, held, notified, shown>>
peers == <<wire, left, seen, asks>>
vars  == <<accepted, core, tasks, peers, overflowed>>

Ids == 1..MaxClients

Message(type) == [type |-> type, changes |-> changes']

Command(do, c) == [do |-> do, client |-> c]

Init ==
  /\ accepted = 0
  /\ inbox = <<>> /\ sinks = {} /\ changes = 0 /\ telling = <<>>
  /\ at = [c \in Ids |-> "none"]
  /\ outbound = [c \in Ids |-> <<>>] /\ held = [c \in Ids |-> <<>>]
  /\ notified = [c \in Ids |-> FALSE]
  /\ shown = {}
  /\ wire = [c \in Ids |-> <<>>] /\ left = {}
  /\ seen = [c \in Ids |-> <<>>] /\ asks = 0
  /\ overflowed = {}

-----------------------------------------------------------------------------
(* The core.  It handles one command at a time, and sends what that makes  *)
(* one message after the other.                                            *)

(* A connection has its channel until its task is gone.                    *)
Full(c) == at[c] # "gone" /\ Len(outbound[c]) >= OutboundCap

(* Message m for those of the clients that have a sink.                    *)
HandTo_KeepsFull(clients, m) ==         \* variant: a full channel is kept
  LET full  == {c \in clients \cap sinks : Full(c)}
      dead  == {c \in clients \cap sinks : at[c] = "gone"}
      given == (clients \cap sinks) \ (full \cup dead)
  IN
  /\ outbound' = [c \in Ids |-> IF c \in given THEN Append(outbound[c], m)
                                ELSE outbound[c]]
  /\ notified' = [c \in Ids |-> notified[c] \/ c \in full]
  /\ overflowed' = overflowed \cup full
  /\ sinks' = sinks \ dead

HandTo(clients, m) ==
  LET full  == {c \in clients \cap sinks : Full(c)}
      dead  == {c \in clients \cap sinks : at[c] = "gone"}
      given == (clients \cap sinks) \ (full \cup dead)
  IN
  /\ outbound' = [c \in Ids |-> IF c \in given THEN Append(outbound[c], m)
                                ELSE outbound[c]]
  /\ notified' = [c \in Ids |-> notified[c] \/ c \in full]
  /\ overflowed' = overflowed \cup full
  /\ sinks' = sinks \ (full \cup dead)

Tell(clients, m) == [to |-> clients, message |-> m]

Step(command) ==
  LET c == command.client IN
  \/ /\ command.do = "connect"
     /\ sinks' = sinks \cup {c} /\ UNCHANGED <<changes, telling>>
  \/ /\ command.do = "disconnect"
     /\ sinks' = sinks \ {c} /\ UNCHANGED <<changes, telling>>
  \/ /\ command.do = "snapshot"
     /\ UNCHANGED <<sinks, changes>>
     /\ telling' = <<Tell({c}, Message("snapshot"))>>
  \/ /\ command.do = "event"
     /\ changes' = changes + 1 /\ UNCHANGED sinks
     /\ telling' = <<Tell(Ids, Message("update"))>>
  \/ /\ command.do = "ask"
     /\ UNCHANGED <<sinks, changes>>
     /\ telling' = <<Tell({c}, Message("result"))>>
  \/ /\ command.do = "ask" /\ changes < MaxChanges
     /\ changes' = changes + 1 /\ UNCHANGED sinks
     /\ telling' = <<Tell(Ids, Message("update")),
                     Tell({c}, Message("result"))>>

CoreTakes ==
  /\ telling = <<>> /\ inbox # <<>>
  /\ Step(Head(inbox))
  /\ inbox' = Tail(inbox)
  /\ UNCHANGED <<accepted, tasks, peers, overflowed>>

CoreTells ==
  /\ telling # <<>>
  /\ HandTo(Head(telling).to, Head(telling).message)
  /\ telling' = Tail(telling)
  /\ UNCHANGED <<accepted, inbox, changes, at, held, shown, peers>>

(* A command for the core waits for room.                                  *)
ForCore(command) ==
  /\ Len(inbox) < InboxCap
  /\ inbox' = Append(inbox, command)

(* What comes from the agent changes the queue.                            *)
AgentReports ==
  /\ changes + Cardinality({i \in DOMAIN inbox : inbox[i].do = "event"})
       < MaxChanges
  /\ ForCore(Command("event", 0))
  /\ UNCHANGED <<accepted, sinks, changes, telling, tasks, peers, overflowed>>

-----------------------------------------------------------------------------
(* The task of a connection.                                               *)

Goes(c, from, to) ==
  /\ at[c] = from
  /\ at' = [at EXCEPT ![c] = to]

(* Registered(c), Unregistered(c): what the status shows.                  *)
Registered(c) == shown' = shown \cup {c}

Unregistered(c) == shown' = shown \ {c}

Accept ==
  /\ accepted < MaxClients
  /\ accepted' = accepted + 1
  /\ Goes(accepted + 1, "none", "hello")
  /\ UNCHANGED <<core, outbound, held, notified, shown, peers, overflowed>>

(* The first frame is not a good hello.                                    *)
TurnsAway(c) ==
  /\ Goes(c, "hello", "gone")
  /\ UNCHANGED <<accepted, core, outbound, held, notified, shown, peers,
                 overflowed>>

Hello(c) ==
  /\ Goes(c, "hello", "connect")
  /\ Registered(c)
  /\ UNCHANGED <<accepted, core, outbound, held, notified, peers, overflowed>>

Connects(c) ==
  /\ Goes(c, "connect", "welcome")
  /\ ForCore(Command("connect", c))
  /\ UNCHANGED <<accepted, sinks, changes, telling, outbound, held, notified,
                 shown, peers, overflowed>>

Welcomes(c) ==
  /\ \/ c \notin left /\ Goes(c, "welcome", "snapshot")
     \/ c \in left /\ Goes(c, "welcome", "undo")
  /\ UNCHANGED <<accepted, core, outbound, held, notified, shown, peers,
                 overflowed>>

(* The welcome could not be written: only the core is told.                *)
Undoes(c) ==
  /\ Goes(c, "undo", "gone")
  /\ ForCore(Command("disconnect", c))
  /\ UNCHANGED <<accepted, sinks, changes, telling, outbound, held, notified,
                 shown, peers, overflowed>>

AsksSnapshot(c) ==
  /\ Goes(c, "snapshot", "select")
  /\ ForCore(Command("snapshot", c))
  /\ UNCHANGED <<accepted, sinks, changes, telling, outbound, held, notified,
                 shown, peers, overflowed>>

(* A write waits for room; to a client that is gone it fails.              *)
Writable(c) == c \in left \/ Len(wire[c]) < WireCap

SlowSeen(c) ==
  /\ Goes(c, "select", "refuse")
  /\ notified[c]
  /\ notified' = [notified EXCEPT ![c] = FALSE]
  /\ UNCHANGED <<accepted, core, outbound, held, shown, peers, overflowed>>

Refuses(c) ==
  /\ Writable(c)
  /\ Goes(c, "refuse", "close")
  /\ UNCHANGED <<accepted, core, outbound, held, notified, shown, peers,
                 overflowed>>

TakesOutbound(c) ==
  /\ Goes(c, "select", "write")
  /\ outbound[c] # <<>>
  /\ held' = [held EXCEPT ![c] = <<Head(outbound[c])>>]
  /\ outbound' = [outbound EXCEPT ![c] = Tail(@)]
  /\ UNCHANGED <<accepted, core, notified, shown, peers, overflowed>>

Writes(c) ==
  /\ \/ /\ c \notin left /\ Len(wire[c]) < WireCap
        /\ Goes(c, "write", "select")
        /\ wire' = [wire EXCEPT ![c] = @ \o held[c]]
     \/ c \in left /\ Goes(c, "write", "close") /\ UNCHANGED wire
  /\ held' = [held EXCEPT ![c] = <<>>]
  /\ UNCHANGED <<accepted, core, outbound, notified, shown, left, seen, asks,
                 overflowed>>

(* The core has dropped the sink and nothing is left in the channel.       *)
Dropped(c) ==
  /\ outbound[c] = <<>> /\ c \notin sinks
  /\ \A i \in DOMAIN inbox : inbox[i] # Command("connect", c)

SeesDropped(c) ==
  /\ Goes(c, "select", "close")
  /\ Dropped(c)
  /\ UNCHANGED <<accepted, core, outbound, held, notified, shown, peers,
                 overflowed>>

(* A frame of the client is a command, or is not understood.               *)
Hears(c) ==
  /\ c \notin left /\ asks < MaxAsks
  /\ Goes(c, "select", "forward") \/ Goes(c, "select", "reply")
  /\ asks' = asks + 1
  /\ UNCHANGED <<accepted, core, outbound, held, notified, shown, wire, left,
                 seen, overflowed>>

(* The terminal interface may also bring events of its agent.              *)
Forwards(c) ==
  /\ Goes(c, "forward", "select")
  /\ \E do \in {"ask", "event"} : ForCore(Command(do, c))
  /\ UNCHANGED <<accepted, sinks, changes, telling, outbound, held, notified,
                 shown, peers, overflowed>>

RepliesError(c) ==
  /\ \/ c \notin left /\ Writable(c) /\ Goes(c, "reply", "select")
     \/ c \in left /\ Goes(c, "reply", "close")
  /\ UNCHANGED <<accepted, core, outbound, held, notified, shown, peers,
                 overflowed>>

ReadsEnd(c) ==
  /\ c \in left
  /\ Goes(c, "hello", "gone") \/ Goes(c, "select", "close")
  /\ UNCHANGED <<accepted, core, outbound, held, notified, shown, peers,
                 overflowed>>

Closes(c) ==
  /\ Goes(c, "close", "bye")
  /\ Unregistered(c)
  /\ UNCHANGED <<accepted, core, outbound, held, notified, peers, overflowed>>

Disconnects_Only(c) ==                  \* variant: the core is not told
  /\ Goes(c, "bye", "gone")
  /\ UNCHANGED <<accepted, core, outbound, held, notified, shown, peers,
                 overflowed>>

Disconnects(c) ==
  /\ Goes(c, "bye", "gone")
  /\ ForCore(Command("disconnect", c))
  /\ UNCHANGED <<accepted, sinks, changes, telling, outbound, held, notified,
                 shown, peers, overflowed>>

(* What the task does of itself, and what it does as the client sends.     *)
Task(c) ==
  \/ Connects(c) \/ Welcomes(c) \/ Undoes(c) \/ AsksSnapshot(c)
  \/ SlowSeen(c) \/ Refuses(c) \/ TakesOutbound(c) \/ Writes(c)
  \/ SeesDropped(c) \/ Forwards(c) \/ RepliesError(c)
  \/ ReadsEnd(c) \/ Closes(c) \/ Disconnects(c)

Frame(c) == TurnsAway(c) \/ Hello(c) \/ Hears(c)

-----------------------------------------------------------------------------
(* The client.                                                             *)

ClientReads(c) ==
  /\ c \notin left /\ wire[c] # <<>>
  /\ seen' = [seen EXCEPT ![c] = <<Head(wire[c])>>]
  /\ wire' = [wire EXCEPT ![c] = Tail(@)]
  /\ UNCHANGED <<accepted, core, tasks, left, asks, overflowed>>

ClientLeaves(c) ==
  /\ at[c] # "none" /\ c \notin left
  /\ left' = left \cup {c}
  /\ UNCHANGED <<accepted, core, tasks, wire, seen, asks, overflowed>>

Next ==
  \/ CoreTakes \/ CoreTells \/ AgentReports \/ Accept
  \/ \E c \in Ids : Task(c) \/ Frame(c) \/ ClientReads(c) \/ ClientLeaves(c)

(* A task runs when it can; which of several things that are ready it      *)
(* selects is drawn each time, so none is passed over for ever; senders    *)
(* that wait for room get it in the order they came.  A client owes        *)
(* nothing: it may send nothing, read no more, and stay.                   *)
Fairness ==
  /\ WF_vars(CoreTakes) /\ WF_vars(CoreTells)
  /\ \A c \in Ids : SF_vars(Task(c)) /\ SF_vars(ReadsEnd(c))

Spec == Init /\ [][Next]_vars

FairSpec == Spec /\ Fairness

-----------------------------------------------------------------------------
(* What the core has sent to a client from the message it has read last on.*)
Stream(c) == seen[c] \o wire[c] \o held[c] \o outbound[c]

Follows(m, before) ==
  m.changes = before.changes + (IF m.type = "update" THEN 1 ELSE 0)

Ordered(s) == \A i \in 1..(Len(s) - 1) : Follows(s[i + 1], s[i])

(* NothingMissed: a client gets every change once and in order from the    *)
(* first message on, snapshot and results where they belong; and while the *)
(* core has a sink of it, what is on its way is all there is to know.  A   *)
(* client too slow to get a message gets none that comes after it.         *)
NothingMissed ==
  \A c \in Ids \ left :
    LET s == Stream(c) IN
    /\ Ordered(s)
    /\ c \in sinks /\ telling = <<>> /\ s # <<>>
         => s[Len(s)].changes = changes

(* LeftIsLetGo: a client that is gone is let go, wherever its connection   *)
(* was: the task ends and the core has no sink of it any more.             *)
LeftIsLetGo ==
  \A c \in Ids : c \in left ~> at[c] = "gone" /\ c \notin sinks

(* SnapshotFirst: COMMUNICATION.md says that the snapshot "follows welcome *)
(* immediately": the first message a client gets after it is the snapshot. *)
SnapshotFirst ==
  \A c \in Ids :
    seen[c] = <<>> /\ wire[c] # <<>> => wire[c][1].type = "snapshot"

(* SlowIsClosed: COMMUNICATION.md says of a client whose channel is full   *)
(* "close 4003 (slow_client)": its connection comes to an end.             *)
SlowIsClosed == \A c \in Ids : c \in overflowed ~> at[c] = "gone"

(* ShownIsThere: the status shows clients that are connected.              *)
ShownIsThere == \A c \in shown : at[c] # "gone"

=============================================================================
