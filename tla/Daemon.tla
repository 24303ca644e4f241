------------------------------- MODULE Daemon -------------------------------
(***************************************************************************)
(* The daemon: the core, the Antigravity adapter, and between them the     *)
(* loop that owns the adapter.  The loop polls the adapter, sends what it  *)
(* emitted to the core one message at a time over a bounded channel, then  *)
(* waits for a command of the core, carries it out, and reports.  The core *)
(* handles one message at a time and never waits for the loop.             *)
(*                                                                         *)
(* The core is module CoreTask, the adapter module AntigravityAdapter; the *)
(* watchdog and the clock, which take no part in a delivery, are left out. *)
(*                                                                         *)
(* Two variables are history, read by no action: `origin` remembers for    *)
(* each event which process announced it, and of which screen, and         *)
(* `answers` which answers were typed, and into what.                      *)
(***************************************************************************)
EXTENDS CoreTask

CONSTANTS
  Menus, Questions, WriteIns, Replies, Works, Responses, None, MaxSeq,
  MaxShows,
  AgentTask,      \* the task all events of the adapter belong to
  UpstreamCap,    \* capacity of the channel to the core
  MaxCommands,    \* bound: decisions and prompts the clients send
  MaxSessions     \* bound: agent processes started

ASSUME DaemonAssumption ==
  /\ AgentTask \in Tasks
  /\ HasResponder
  /\ UpstreamCap \in Nat \ {0}
  /\ MaxCommands \in Nat /\ MaxSessions \in Nat \ {0}

VARIABLES
  adapter, terminal, unread, alive, shows,
  upstream,     \* messages on their way to the core
  loop,         \* where the loop is, and what it has still to send
  held,         \* is a prompt held until the agent can take it?
  session,      \* which agent process this is
  asked,        \* commands the clients have sent (bounds the model)
  origin, answers

Agent == INSTANCE AntigravityAdapter

core      == <<now, events, queue, open, commands, out>>
agentSide == <<adapter, terminal, unread, alive, shows>>
history   == <<origin, answers>>
daemon    == <<core, agentSide, upstream, loop, held, session, asked, history>>

-----------------------------------------------------------------------------
(* Messages to the core.                                                   *)

EventMessage(event, screen) ==
  [type |-> "event", kind |-> event.kind, seq |-> event.seq,
   from |-> [session |-> session, screen |-> screen]]

(* The dialog a request was announced for, the screen of any other event.  *)
ScreenOf(a, event) ==
  IF a.pending # None /\ a.pending.seq = event.seq THEN a.pending.screen
  ELSE a.screen

EventMessages(a) ==
  [i \in DOMAIN a.out |-> EventMessage(a.out[i], ScreenOf(a, a.out[i]))]

Outcome_AlwaysDelivered(command, error) ==     \* variant: errors are ignored
  [type |-> "outcome", id |-> command.id, decision |-> command.decision,
   delivered |-> TRUE]

Outcome(command, error) ==
  [type |-> "outcome", id |-> command.id, decision |-> command.decision,
   delivered |-> error = "ok"]

Report_OnlySuccess(command, error) ==          \* variant: errors stay here
  IF error = "ok" THEN <<Outcome(command, error)>> ELSE <<>>

Report(command, error) == <<Outcome(command, error)>>

-----------------------------------------------------------------------------
(* The loop.                                                               *)

Waiting(place) == loop.at = place /\ loop.outgoing = <<>>

(* A held prompt is typed as soon as the agent can take it; if it cannot   *)
(* be written it is dropped.                                               *)
PollAdapter ==
  /\ Waiting("poll")
  /\ unread' = FALSE
  /\ UNCHANGED <<core, terminal, shows, upstream, session, asked, history>>
  /\ \E evidence, sent \in BOOLEAN :
     \E best   \in Agent!PollOutcomes(adapter, evidence, TRUE),
        polled \in Agent!PollOutcomes(adapter, evidence, sent) :
       LET ready == held /\ Agent!AcceptsChatInput(polled.screen) IN
       /\ Agent!Writes(IF ready THEN Agent!PromptStarted(best).typed
                       ELSE best.typed, sent)
       /\ adapter' = IF ready /\ sent THEN Agent!PromptStarted(polled)
                     ELSE polled
       /\ held' = (held /\ ~ready)
       /\ loop' = [at |-> "select", outgoing |-> EventMessages(polled)]

(* The loop waits while the channel to the core is full.                   *)
SendToCore ==
  /\ loop.outgoing # <<>>
  /\ Len(upstream) < UpstreamCap
  /\ upstream' = Append(upstream, Head(loop.outgoing))
  /\ loop' = [loop EXCEPT !.outgoing = Tail(@)]
  /\ UNCHANGED <<core, agentSide, held, session, asked, history>>

SelectTimeout ==
  /\ Waiting("select")
  /\ commands = <<>>
  /\ loop' = [loop EXCEPT !.at = "poll"]
  /\ UNCHANGED <<core, agentSide, upstream, held, session, asked, history>>

(* What the client chose, of which the queue only keeps the decision.      *)
ResponsesFor(decision) ==
  IF decision = "Denied" THEN {"Deny"} ELSE Responses \ {"Deny"}

DeliverDecision ==
  /\ Waiting("select")
  /\ commands # <<>> /\ Head(commands).type = "respond"
  /\ TakeCommand
  /\ UNCHANGED <<terminal, shows, upstream, held, session, asked, origin>>
  /\ \E response \in ResponsesFor(Head(commands).decision), sent \in BOOLEAN :
       LET command == Head(commands)
           error == Agent!RespondError(adapter, command.seq, response, sent)
       IN
       /\ Agent!Writes(Agent!Responded(adapter, command.seq, response,
                                       TRUE).typed, sent)
       /\ adapter' = Agent!Responded(adapter, command.seq, response, sent)
       /\ unread' = (unread /\ ~Agent!ReadsScreen(adapter, command.seq))
       /\ loop' = [at |-> "poll", outgoing |-> Report(command, error)]
       /\ answers' = IF error = "ok"
                     THEN Append(answers,
                            [id |-> command.id, decision |-> command.decision,
                             session |-> session,
                             screen |-> adapter'.typed.into])
                     ELSE answers

(* A prompt starts a new process if the last one is over, and is held for  *)
(* the running one otherwise, in place of the one held before.             *)
DeliverPrompt ==
  /\ Waiting("select")
  /\ commands # <<>> /\ Head(commands).type = "start_task"
  /\ TakeCommand
  /\ loop' = [loop EXCEPT !.at = "poll"]
  /\ IF Agent!IsFinished(adapter)
     THEN /\ \/ /\ session < MaxSessions
                /\ session' = session + 1
                /\ adapter' = Agent!NewAdapter(TRUE)
                /\ terminal' = Agent!Plain("Initializing")
                /\ unread' = FALSE
                /\ alive' = TRUE
             \/ UNCHANGED <<session, adapter, terminal, unread, alive>>
          /\ UNCHANGED held
     ELSE /\ held' = TRUE
          /\ UNCHANGED <<session, adapter, terminal, unread, alive>>
  /\ UNCHANGED <<shows, upstream, asked, history>>

-----------------------------------------------------------------------------
(* The core takes the next message of the loop.                            *)

Carries(kind) == kind \in {"approval_required", "input_required"}

CoreEvent ==
  /\ upstream # <<>> /\ Head(upstream).type = "event"
  /\ upstream' = Tail(upstream)
  /\ UNCHANGED <<agentSide, loop, held, session, asked, answers>>
  /\ LET m == Head(upstream) IN
     /\ RawEvent(m.kind, Carries(m.kind), AgentTask, "Other", m.seq)
     /\ origin' = Append(origin, m.from)

CoreOutcome ==
  /\ upstream # <<>> /\ Head(upstream).type = "outcome"
  /\ upstream' = Tail(upstream)
  /\ UNCHANGED <<agentSide, loop, held, session, asked, history>>
  /\ LET m == Head(upstream) IN
     IF m.delivered THEN Delivered(m.id, m.decision) ELSE DeliveryFailed(m.id)

(* The clients: decisions on any request, at any time, and prompts.        *)
ClientDecides ==
  /\ asked < MaxCommands
  /\ \E c \in Clients, id \in Ids(queue), decision \in Decisions :
       \/ RespondSent(c, id, decision)
       \/ RespondOverflow(c, id, decision)
  /\ asked' = asked + 1
  /\ UNCHANGED <<agentSide, upstream, loop, held, session, history>>

ClientPrompts ==
  /\ asked < MaxCommands
  /\ \E c \in Clients : ClientStartTask(c)
  /\ asked' = asked + 1
  /\ UNCHANGED <<agentSide, upstream, loop, held, session, history>>

(* The agent and the deadlines of the adapter.                             *)
AgentMoves ==
  /\ \/ Agent!AgentShows
     \/ Agent!AgentDies
     \/ Agent!GraceEnds
     \/ Agent!WriteInLate
  /\ UNCHANGED <<core, upstream, loop, held, session, asked, history>>

-----------------------------------------------------------------------------
DaemonInit ==
  /\ Init
  /\ Agent!Init
  /\ upstream = <<>>
  /\ loop = [at |-> "poll", outgoing |-> <<>>]
  /\ held = FALSE
  /\ session = 1
  /\ asked = 0
  /\ origin = <<>> /\ answers = <<>>

LoopNext ==
  \/ PollAdapter
  \/ SendToCore
  \/ SelectTimeout
  \/ DeliverDecision
  \/ DeliverPrompt

CoreNext == CoreEvent \/ CoreOutcome

DaemonNext ==
  \/ LoopNext
  \/ CoreNext
  \/ ClientDecides
  \/ ClientPrompts
  \/ AgentMoves

DaemonSpec == DaemonInit /\ [][DaemonNext]_daemon

(* The loop and the core are tasks of the runtime: each runs whenever it   *)
(* can.  The agent and the clients owe nothing.                            *)
DaemonFairSpec == DaemonSpec /\ WF_daemon(LoopNext) /\ WF_daemon(CoreNext)

-----------------------------------------------------------------------------
(* InFlight(id): the places where an answer to the request, or the word of *)
(* what became of it, is on its way.                                       *)
Places(s, type, id) == {i \in DOMAIN s : s[i].type = type /\ s[i].id = id}

InFlight(id) ==
  Cardinality(Places(commands, "respond", id))
    + Cardinality(Places(loop.outgoing, "outcome", id))
    + Cardinality(Places(upstream, "outcome", id))

(* PendingHasOneCarrier: a request waits for the word of a delivery exactly*)
(* while one, and only one, is on its way; none is lost, none comes twice. *)
PendingHasOneCarrier ==
  \A id \in Ids(queue) :
    InFlight(id) = IF queue[id].resolution = "PendingDelivery" THEN 1 ELSE 0

(* DecisionTypedOnce: a request the queue shows as decided had exactly that*)
(* decision typed into the agent's terminal, exactly once; the answer to a *)
(* request that can still be answered was not typed at all.                *)
DecisionTypedOnce ==
  \A id \in Ids(queue) :
    LET typed == {i \in DOMAIN answers : answers[i].id = id} IN
    /\ queue[id].resolution \in Decisions
         => /\ Cardinality(typed) = 1
            /\ \A i \in typed : answers[i].decision = queue[id].resolution
    /\ IsActionable(queue[id]) => typed = {}

(* AnswersItsOwnDialog: an answer is only ever typed into the dialog that  *)
(* the request it answers was announced for.                               *)
AnswersItsOwnDialog ==
  \A i \in DOMAIN answers :
    LET shown == origin[answers[i].id] IN
    /\ answers[i].session = shown.session
    /\ Agent!SameRequest(shown.screen, answers[i].screen)

(* AskedIsAnswerable: once nothing is on its way between the adapter and   *)
(* the core, the request the adapter has pending is one the clients can    *)
(* answer: it is in the queue and neither superseded nor decided.          *)
Settled == loop.outgoing = <<>> /\ upstream = <<>> /\ commands = <<>>

AskedIsAnswerable ==
  Settled /\ adapter.pending # None =>
    \E id \in Ids(queue) :
      /\ origin[id].session = session
      /\ events[id].agentSeq = adapter.pending.seq
      /\ IsActionable(queue[id])

(* EventuallyReported: no request waits forever for the word of a delivery:*)
(* again and again none is waiting.                                        *)
EventuallyReported ==
  []<>(\A id \in Ids(queue) : ~InDelivery(queue, id))

=============================================================================
