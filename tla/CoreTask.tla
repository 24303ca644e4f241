----------------------------- MODULE CoreTask ------------------------------
(***************************************************************************)
(* The core of the daemon: one task that owns the event store, the queue   *)
(* and the tracker, and handles one command at a time to completion.  Every*)
(* action below is one such command.  What the handler hands to the sinks  *)
(* of the clients is the value it gives to `out`, in the order sent; who   *)
(* receives it, and what happens to a full sink, is module RelayTrunk's.   *)
(* This is the core in its normal pipeline mode ("agentdesk").             *)
(***************************************************************************)
EXTENDS PriorityQueue, TaskTracker, SequencesExt

CONSTANTS
  Clients,        \* connected clients (phones, terminal sessions)
  HasResponder,   \* is there an adapter to deliver decisions to?
  CommandCap,     \* capacity of the adapter command channel
  RawKinds,       \* kinds the adapters report in this model
  RawOperations,  \* operations the adapters report in this model
  RawSeqs,        \* agent sequence numbers the adapters report
  MaxEvents,      \* bound: events stored
  MaxTime,        \* bound: the clock
  TimeStep        \* how far the clock moves at a time

ASSUME CoreAssumption ==
  /\ HasResponder \in BOOLEAN
  /\ CommandCap \in Nat \ {0}
  /\ RawKinds \subseteq Kinds
  /\ RawOperations \subseteq Operations
  /\ RawSeqs \subseteq Nat
  /\ MaxEvents \in Nat /\ MaxTime \in Nat /\ TimeStep \in Nat \ {0}

VARIABLES
  now,          \* the clock the handlers read
  events,       \* the event store: immutable events, in order of arrival
  queue,        \* the entry of each event
  open,         \* the tracker's open tasks
  commands,     \* decisions on their way to the adapter loop
  out           \* messages the last command handed to the sinks

vars == <<now, events, queue, open, commands, out>>

EventIds == 1..MaxEvents

-----------------------------------------------------------------------------
(* Messages.  `to` is the client a reply goes to; pushes go to everybody,  *)
(* a forwarded decision to everybody but the client that made it.          *)

ScoreUpdate(q, id) ==
  [type |-> "score_update", id |-> id, score |-> q[id].score,
   escalation |-> q[id].escalation]

StateUpdate(q, id) ==
  [type |-> "state_update", id |-> id, state |-> q[id].state,
   resolution |-> q[id].resolution, superseded |-> q[id].superseded]

EventPush(q, es, id) ==
  [type |-> "event", id |-> id, event |-> es[id], entry |-> q[id]]

Forward(c, id, decision) ==
  [type |-> "respond_request", from |-> c, id |-> id, decision |-> decision]

CommandResult(c, result) ==
  [type |-> "command_result", to |-> c, result |-> result]

EventDetails(c, q, id) ==
  [type |-> "event_details", to |-> c, id |-> id, event |-> events[id],
   entry |-> q[id]]

ErrorReply(c) == [type |-> "error", to |-> c]

StartTask == [type |-> "start_task"]

Snapshot(c, q) ==
  LET order == OrderedSnapshot(q) IN
  [type |-> "snapshot", to |-> c, order |-> order,
   entries |-> [i \in DOMAIN order |-> q[order[i]]],
   events |-> [i \in DOMAIN order |-> events[order[i]]]]

(* One score update for each entry whose score differs between q and r, in *)
(* an order (that of the UUIDs) that has nothing to do with arrival.       *)
ScoreUpdates(q, r) ==
  LET changed == SetToSeq({id \in Ids(q) : q[id].score # r[id].score})
  IN  [i \in DOMAIN changed |-> ScoreUpdate(r, changed[i])]

StateUpdates(q, ids) ==
  LET order == SetToSeq(ids)
  IN  [i \in DOMAIN order |-> StateUpdate(q, order[i])]

-----------------------------------------------------------------------------
Init ==
  /\ now = 0
  /\ events = <<>>
  /\ queue = <<>>
  /\ open = [t \in {} |-> NoTask]
  /\ commands = <<>>
  /\ out = <<>>

(* Time passes between commands.                                           *)
Advance ==
  /\ now + TimeStep <= MaxTime
  /\ now' = now + TimeStep
  /\ out' = <<>>
  /\ UNCHANGED <<events, queue, open, commands>>

-----------------------------------------------------------------------------
(* Adapter output.                                                         *)

Processed(kind, hasRequest, task, operation, agentSeq) ==
  LET verdict == Verdict(kind, hasRequest) IN
  [task |-> task, category |-> verdict[1], severity |-> verdict[2],
   operation |-> operation, agentSeq |-> agentSeq, ts |-> now]

RawEvent(kind, hasRequest, task, operation, agentSeq) ==
  \E event \in {Processed(kind, hasRequest, task, operation, agentSeq)} :
  LET id      == Len(events) + 1
      fresh   == NewEntry(event.category, 0)
      stored  == Append(queue,
                   [fresh EXCEPT !.score = Score(fresh, event, now)])
      stale   == {x \in Outdated(open, event) : CanSupersede(queue, x)}
  IN
  /\ Len(events) < MaxEvents
  /\ events' = Append(events, event)
  /\ queue' = Supersede(stored, stale)
  /\ open' = Observe(open, event, id)
  /\ out' = Append(StateUpdates(queue', stale), EventPush(queue', events', id))
  /\ UNCHANGED <<now, commands>>

Malformed(agentSeq) == agentSeq = 0

AdapterEvent ==
  \E kind \in RawKinds, hasRequest \in BOOLEAN, task \in Tasks \cup {NoTask},
     operation \in RawOperations, agentSeq \in RawSeqs :
    /\ ~Malformed(agentSeq)
    /\ RawEvent(kind, hasRequest, task, operation, agentSeq)

(* An event without an agent, a kind or a sequence number is only counted. *)
DropMalformed ==
  /\ \E agentSeq \in RawSeqs : Malformed(agentSeq)
  /\ out' = <<>>
  /\ UNCHANGED <<now, events, queue, open, commands>>

-----------------------------------------------------------------------------
(* The periodic tick: re-score what is live, then let the watchdog raise   *)
(* the level of overdue tasks, re-scoring the entries it raised.           *)

Tick_StaleEscalation ==           \* variant: raised entries keep their score
  LET rescored  == Rescore(queue, events, now)
      escalated == Escalate(rescored, Escalations(open, now))
  IN
  /\ queue' = escalated
  /\ open' = Ticked(open, now)
  /\ out' = ScoreUpdates(queue, rescored)
  /\ UNCHANGED <<now, events, commands>>

Tick ==
  LET rescored  == Rescore(queue, events, now)
      levels    == Escalations(open, now)
      raised    == {id \in Ids(queue) : CanEscalate(queue, id, levels)}
      escalated == Scored(Escalate(rescored, levels), events, raised, now)
  IN
  /\ queue' = escalated
  /\ open' = Ticked(open, now)
  /\ out' = ScoreUpdates(queue, rescored) \o ScoreUpdates(rescored, escalated)
  /\ UNCHANGED <<now, events, commands>>

-----------------------------------------------------------------------------
(* Commands from clients.                                                  *)

ClientAck(c, id) ==
  /\ queue' = IF CanAck(queue, id) THEN Ack(queue, id) ELSE queue
  /\ out' = IF ~Known(queue, id) THEN <<CommandResult(c, "no_such_event")>>
            ELSE IF CanAck(queue, id)
            THEN <<StateUpdate(queue', id), CommandResult(c, "ok")>>
            ELSE <<CommandResult(c, "ok")>>
  /\ UNCHANGED <<now, events, open, commands>>

ClientDismiss(c, id) ==
  /\ queue' = IF CanDismiss(queue, id) THEN Dismiss(queue, id) ELSE queue
  /\ out' = IF ~Known(queue, id) THEN <<CommandResult(c, "no_such_event")>>
            ELSE IF CanDismiss(queue, id)
            THEN <<StateUpdate(queue', id), CommandResult(c, "ok")>>
            ELSE <<CommandResult(c, "ok")>>
  /\ UNCHANGED <<now, events, open, commands>>

(* A prompt for the agent.  The answer is "ok" even when the channel to the *)
(* adapter is full and the prompt goes nowhere.                            *)
ClientStartTask(c) ==
  /\ commands' = IF HasResponder /\ Len(commands) < CommandCap
                 THEN Append(commands, StartTask) ELSE commands
  /\ out' = <<StartTask, CommandResult(c, "ok")>>
  /\ UNCHANGED <<now, events, queue, open>>

(* Log pages and metrics are read-only; a bridge message or an unknown one *)
(* from a client is answered with an error.                                *)
ClientQuery(c) ==
  /\ \/ out' = <<[type |-> "event_logs", to |-> c]>>
     \/ out' = <<[type |-> "metrics", to |-> c]>>
     \/ out' = <<CommandResult(c, "no_such_event")>>
     \/ out' = <<ErrorReply(c)>>
  /\ UNCHANGED <<now, events, queue, open, commands>>

(* The command carries the sequence number the agent gave the request, so  *)
(* that the adapter can tell it from a later one.                          *)
RespondCommand(id, decision) ==
  [type |-> "respond", id |-> id, task |-> events[id].task,
   seq |-> events[id].agentSeq, decision |-> decision]

RespondRefused(c, id) ==
  /\ RespondVerdict(queue, id) # "ok"
  /\ out' = <<CommandResult(c, RespondVerdict(queue, id))>>
  /\ UNCHANGED <<now, events, queue, open, commands>>

(* The decision is on its way to the adapter.                              *)
RespondSent(c, id, decision) ==
  LET pending == UpdateEntryScore(RespondRequest(queue, id), events, id, now)
  IN
  /\ RespondVerdict(queue, id) = "ok"
  /\ Len(commands) < CommandCap
  /\ queue' = pending
  /\ commands' = Append(commands, RespondCommand(id, decision))
  /\ out' = ScoreUpdates(queue, pending)
              \o <<StateUpdate(pending, id), Forward(c, id, decision),
                   CommandResult(c, "ok")>>
  /\ UNCHANGED <<now, events, open>>

RespondOverflow_Lost(c, id, decision) ==       \* variant: nothing is undone
  LET pending == UpdateEntryScore(RespondRequest(queue, id), events, id, now)
  IN
  /\ RespondVerdict(queue, id) = "ok"
  /\ Len(commands) >= CommandCap
  /\ queue' = pending
  /\ out' = ScoreUpdates(queue, pending)
              \o <<StateUpdate(pending, id), Forward(c, id, decision),
                   CommandResult(c, "ok")>>
  /\ UNCHANGED <<now, events, open, commands>>

(* The channel to the adapter is full: announced, forwarded, and undone.   *)
RespondOverflow(c, id, decision) ==
  LET pending  == UpdateEntryScore(RespondRequest(queue, id), events, id, now)
      reopened == UpdateEntryScore(MarkDeliveryFailed(pending, id),
                                   events, id, now)
  IN
  /\ RespondVerdict(queue, id) = "ok"
  /\ Len(commands) >= CommandCap
  /\ queue' = reopened
  /\ out' = ScoreUpdates(queue, pending)
              \o <<StateUpdate(pending, id), Forward(c, id, decision)>>
              \o ScoreUpdates(pending, reopened)
              \o <<StateUpdate(reopened, id),
                   CommandResult(c, "delivery_failed")>>
  /\ UNCHANGED <<now, events, open, commands>>

(* Without a channel to an adapter the decision counts as delivered.       *)
RespondUnattended(c, id, decision) ==
  LET pending == UpdateEntryScore(RespondRequest(queue, id), events, id, now)
      decided == UpdateEntryScore(MarkDelivered(pending, id, decision),
                                  events, id, now)
  IN
  /\ RespondVerdict(queue, id) = "ok"
  /\ queue' = decided
  /\ out' = ScoreUpdates(queue, pending)
              \o <<Forward(c, id, decision)>>
              \o ScoreUpdates(pending, decided)
              \o <<StateUpdate(decided, id), CommandResult(c, "ok")>>
  /\ UNCHANGED <<now, events, open, commands>>

ClientRespond(c, id, decision) ==
  IF HasResponder
  THEN \/ RespondRefused(c, id)
       \/ RespondSent(c, id, decision)
       \/ RespondOverflow(c, id, decision)
  ELSE \/ RespondRefused(c, id)
       \/ RespondUnattended(c, id, decision)

ClientDetails(c, id) ==
  LET seen == UpdateEntryScore(Ack(queue, id), events, id, now)
  IN
  /\ queue' = IF CanAck(queue, id) THEN seen ELSE queue
  /\ out' = IF ~Known(queue, id) THEN <<ErrorReply(c)>>
            ELSE (IF CanAck(queue, id)
                  THEN <<StateUpdate(seen, id)>> \o ScoreUpdates(queue, seen)
                  ELSE <<>>) \o <<EventDetails(c, queue', id)>>
  /\ UNCHANGED <<now, events, open, commands>>

(* A client that has just been welcomed is sent what is live.              *)
SendSnapshot(c) ==
  /\ out' = <<Snapshot(c, queue)>>
  /\ UNCHANGED <<now, events, queue, open, commands>>

ClientCommand ==
  \E c \in Clients :
    \/ ClientStartTask(c)
    \/ ClientQuery(c)
    \/ SendSnapshot(c)
    \/ \E id \in EventIds :
         \/ ClientAck(c, id)
         \/ ClientDismiss(c, id)
         \/ ClientDetails(c, id)
         \/ \E decision \in Decisions : ClientRespond(c, id, decision)

-----------------------------------------------------------------------------
(* What became of a decision, as the adapter side reports it.              *)

Delivered(id, decision) ==
  LET decided == UpdateEntryScore(MarkDelivered(queue, id, decision),
                                  events, id, now)
  IN
  /\ queue' = IF InDelivery(queue, id) THEN decided ELSE queue
  /\ out' = IF InDelivery(queue, id)
            THEN ScoreUpdates(queue, decided) \o <<StateUpdate(decided, id)>>
            ELSE <<>>
  /\ UNCHANGED <<now, events, open, commands>>

DeliveryFailed_Silent(id) ==      \* variant: nobody is told it reopened
  LET reopened == UpdateEntryScore(MarkDeliveryFailed(queue, id),
                                   events, id, now)
  IN
  /\ queue' = IF InDelivery(queue, id) THEN reopened ELSE queue
  /\ out' = ScoreUpdates(queue, queue')
  /\ UNCHANGED <<now, events, open, commands>>

DeliveryFailed(id) ==
  LET reopened == UpdateEntryScore(MarkDeliveryFailed(queue, id),
                                   events, id, now)
  IN
  /\ queue' = IF InDelivery(queue, id) THEN reopened ELSE queue
  /\ out' = IF InDelivery(queue, id)
            THEN ScoreUpdates(queue, reopened) \o <<StateUpdate(reopened, id)>>
            ELSE <<>>
  /\ UNCHANGED <<now, events, open, commands>>

AdapterOutcome ==
  \E id \in Ids(queue) :
    \/ \E decision \in Decisions : Delivered(id, decision)
    \/ DeliveryFailed(id)

(* The adapter loop takes the oldest decision off the channel.             *)
TakeCommand ==
  /\ commands # <<>>
  /\ commands' = Tail(commands)
  /\ out' = <<>>
  /\ UNCHANGED <<now, events, queue, open>>

-----------------------------------------------------------------------------
Next ==
  \/ Advance
  \/ AdapterEvent
  \/ DropMalformed
  \/ Tick
  \/ ClientCommand
  \/ AdapterOutcome
  \/ TakeCommand

Spec == Init /\ [][Next]_vars

-----------------------------------------------------------------------------
(* TypeOK: every variable holds a value of its type, and the queue has one *)
(* entry per stored event, in the tier of the event's category: the core   *)
(* pushes to the store and the queue together and never removes.           *)
TypeOK ==
  /\ now \in Nat
  /\ events \in Seq(Event)
  /\ queue \in Seq(QueueEntry)
  /\ Len(queue) = Len(events)
  /\ \A id \in Ids(queue) : queue[id].tier = Tier(events[id].category)
  /\ DOMAIN open \subseteq Tasks
  /\ open \in [DOMAIN open -> OpenTask]

TaskOf(id) == events[id].task

IsRequest(id) == events[id].category = "Request"

Tracked(id) ==
  /\ TaskOf(id) \in DOMAIN open
  /\ id \in open[TaskOf(id)].working \cup open[TaskOf(id)].requests

(* WorkingShownWhileOpen: the tracker knows exactly the working entries    *)
(* that are still current.  None is left in the queue once its task has    *)
(* completed or failed, and none is hidden while its task runs.            *)
WorkingShownWhileOpen ==
  \A id \in Ids(queue) :
    events[id].category = "Working" /\ TaskOf(id) # NoTask
      => (queue[id].superseded <=> ~Tracked(id))

(* TrackerConsistent: a task waits for at most one answer as far as the    *)
(* tracker is concerned, and what it tracks are stored events of its own.  *)
TrackerConsistent ==
  \A t \in DOMAIN open :
    /\ \A id \in open[t].working :
         /\ id \in Ids(queue)
         /\ TaskOf(id) = t /\ events[id].category = "Working"
    /\ \A id \in open[t].requests :
         /\ id \in Ids(queue)
         /\ TaskOf(id) = t /\ IsRequest(id)
    /\ \A a, b \in open[t].requests : a = b
    /\ IF open[t].latest = NoEvent THEN open[t].working = {}
       ELSE open[t].latest \in open[t].working

(* EscalationCarried: an escalation level is carried by a working event of *)
(* the task it was raised for, no event of the task is above it, and a task*)
(* the watchdog raised has an entry that shows it.                         *)
EscalationCarried ==
  /\ \A id \in Ids(queue) : queue[id].escalation > 0
       => events[id].category = "Working" /\ TaskOf(id) # NoTask
  /\ \A t \in DOMAIN open :
       /\ \A id \in open[t].working : queue[id].escalation <= open[t].level
       /\ open[t].level > 0
            => \E id \in open[t].working :
                 queue[id].escalation = open[t].level

(* NeverUnderrated: scores are recomputed only by ticks and by some        *)
(* commands, so between two of them a score is stale; yet a live entry     *)
(* never sorts below its due, since every change that raises a score       *)
(* (an escalation, a reopened request) recomputes it at once.              *)
NeverUnderrated ==
  \A id \in Ids(queue) :
    IsLive(queue[id]) => queue[id].score >= Score(queue[id], events[id], now)

(* What a client that keeps a mirror of the queue does with one message.   *)
ApplyPush(mirror, message) ==
  CASE message.type = "event" -> Append(mirror, message.entry)
    [] message.type = "score_update" ->
         [mirror EXCEPT ![message.id].score = message.score,
                        ![message.id].escalation = message.escalation]
    [] message.type = "state_update" ->
         [mirror EXCEPT ![message.id].state = message.state,
                        ![message.id].resolution = message.resolution,
                        ![message.id].superseded = message.superseded]
    [] OTHER -> mirror

(* PushesTellAll: no handler changes the queue without telling.  A client  *)
(* that holds the queue and applies, in order, the messages one command    *)
(* hands to the sinks holds the queue the command leaves.                  *)
PushesTellAll == [][FoldLeft(ApplyPush, queue, out') = queue']_vars

(* OutlivesTaskByReopenOnly: a request with a task that can be answered    *)
(* though the tracker has dropped it (its task closed, or a newer request  *)
(* took its place) got there because an answer to it was in delivery at    *)
(* the time, which spares it from being superseded, and then failed.       *)
Forgotten(id) ==
  IsActionable(queue[id]) /\ TaskOf(id) # NoTask /\ ~Tracked(id)

OutlivesTaskByReopenOnly ==
  [][\A id \in Ids(queue) :
       Forgotten(id)' /\ ~Forgotten(id)
         => queue[id].resolution = "PendingDelivery"]_vars

(* RequestAnsweredOnce: the core implements the promise of the abstract    *)
(* RequestLifecycle.  Whatever clients, ticks and the adapter do, a request*)
(* has at most one decision on its way, one command carries it, and a      *)
(* delivered decision is never taken back or replaced.                     *)
Lifecycle ==
  INSTANCE RequestLifecycle WITH
    Delivery <- HasResponder,
    status   <- [id \in Ids(queue) |-> queue[id].resolution],
    commands <- [i \in DOMAIN commands |->
                   IF commands[i].type = "respond"
                   THEN <<commands[i].id, commands[i].decision>> ELSE <<>>]

RequestAnsweredOnce == Lifecycle!Spec

=============================================================================
