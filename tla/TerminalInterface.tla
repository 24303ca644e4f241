------------------------- MODULE TerminalInterface -------------------------
(***************************************************************************)
(* The daemon inside the terminal interface.  The agent runs in a shell of *)
(* the interface, which reads its screen and types into it; what it sees it*)
(* reports to the core, of which it is also a client, with a sink of its   *)
(* own.  Decisions come back to it on one channel that two others feed: the*)
(* sink, with what other clients decide, and the adapter loop, with every  *)
(* decision and prompt.  The core is module CoreTask; time stands still.   *)
(*                                                                         *)
(* Dialogs are approval menus, and no two of them ask the same.  How a     *)
(* screen is read is module ScreenDetection's, which keys answer it is     *)
(* KeyEncoding's, whether it shows finished work is Transcript's.          *)
(***************************************************************************)
EXTENDS CoreTask

CONSTANTS
  Tui, Phone,   \* the clients of the core: this interface, and a phone
  Answered,     \* decisions the users make in this model
  Acts,         \* what the users do in this model
  MaxActs,      \* bound: how often they do it
  MaxDialogs    \* bound: dialogs the agent shows

ASSUME TerminalAssumption ==
  /\ Clients = {Tui, Phone} /\ Tui # Phone
  /\ Tasks # {} /\ HasResponder
  /\ Answered \subseteq Decisions
  /\ Acts \subseteq {"phone", "phone_prompt", "answer", "approve", "dismiss",
                     "prompt", "launch", "enter", "move"}
  /\ MaxActs \in Nat /\ MaxDialogs \in Nat

VARIABLES
  inbox,        \* what the interface has sent to the core
  channel,      \* events for the interface, from the sink and adapter loop
  view,         \* the entries the interface shows, by event
  agent,        \* what the agent shows
  screen,       \* what the interface has read of that
  keys,         \* what it has typed and the agent has not read
  machine,      \* its state machine
  injected,     \* is a prompt like the last one a duplicate still?
  asked,        \* history: the dialog each event announces, or 0
  copies,       \* history: copies of decisions due less copies handled
  prompted,     \* history: how often each dialog met a prompt
  removed,      \* history: events taken off the view by hand
  acts

core  == <<now, events, queue, open, commands, out>>
shell == <<agent, screen, keys, machine>>
past  == <<asked, copies, prompted, removed, acts>>
tui   == <<core, shell, past, inbox, channel, view, injected>>

CoreIdle == out' = <<>> /\ UNCHANGED <<now, events, queue, open, commands>>

-----------------------------------------------------------------------------
(* Screens.  task: does it show a prompt of the user's?  worked: is there  *)
(* something below that prompt?  dialogs counts those shown so far.        *)

Shown(kind) == [kind |-> kind, dialog |-> 0, moved |-> FALSE]

Dialog(k) == [Shown("dialog") EXCEPT !.dialog = k]

NewAgent ==
  [state |-> Shown("idle"), task |-> FALSE, worked |-> FALSE, dialogs |-> 0]

SameRequest_Exact(a, b) == a.kind = "dialog" /\ a = b  \* variant: and cursor

SameRequest_Any(a, b) ==                \* variant: any two dialogs are one
  a.kind = "dialog" /\ b.kind = "dialog"

SameRequest(a, b) ==
  a.kind = "dialog" /\ b.kind = "dialog" /\ a.dialog = b.dialog

(* The state machine.  recent: was a prompt started a moment ago?  event is*)
(* what a call of it returns.                                              *)
NoReport == [kind |-> "none", dialog |-> 0]

Report(state) ==
  CASE state.kind \in {"working", "prompted"} ->
         [kind |-> "progress", dialog |-> 0]
    [] state.kind = "idle"      -> [kind |-> "idle", dialog |-> 0]
    [] state.kind = "completed" -> [kind |-> "task_completed", dialog |-> 0]
    [] state.kind = "dialog"    ->
         [kind |-> "command_confirmation", dialog |-> state.dialog]

NewMachine == [current |-> Shown("initializing"), prompt |-> FALSE,
               recent |-> FALSE, report |-> NoReport]

StartPrompt(m) ==
  [m EXCEPT !.prompt = TRUE, !.recent = TRUE, !.current = Shown("prompted"),
            !.report = Report(Shown("prompted"))]

Enters(m, state) == [m EXCEPT !.current = state, !.report = Report(state)]

Update(m, seen) ==
  LET b == [m EXCEPT !.prompt = @ \/ seen.task, !.report = NoReport]
      busy == b.prompt \/ m.current.kind \in {"working", "prompted", "dialog"}
      rest == [b EXCEPT !.prompt = FALSE, !.recent = FALSE]
  IN
  CASE seen.state = m.current -> b
    [] seen.state # m.current /\ SameRequest(m.current, seen.state) ->
         [b EXCEPT !.current = seen.state]
    [] seen.state # m.current /\ ~SameRequest(m.current, seen.state) ->
         IF seen.state.kind # "idle" \/ ~busy THEN Enters(b, seen.state)
         ELSE IF seen.worked THEN Enters(rest, Shown("completed"))
         ELSE IF b.recent /\ b.prompt THEN b
         ELSE Enters(rest, seen.state)

-----------------------------------------------------------------------------
(* What the interface sends to the core.                                   *)

Raw(m) ==
  IF m.report = NoReport THEN <<>>
  ELSE <<[do |-> "raw", kind |-> m.report.kind, dialog |-> m.report.dialog]>>

Outcome(ok, id, decision) ==
  [do |-> "outcome", ok |-> ok, id |-> id, decision |-> decision]

RespondTo(id, decision) == [do |-> "respond", id |-> id, decision |-> decision]

DismissIt(id) == [do |-> "dismiss", id |-> id]

(* The events stored and those on their way are within the bound.          *)
Sends(messages) ==
  /\ inbox' = inbox \o messages
  /\ Len(events) + Cardinality({i \in DOMAIN inbox' : inbox'[i].do = "raw"})
       <= MaxEvents

(* What its sink takes of the messages of the core.  Prompts come by the   *)
(* adapter loop.                                                           *)
SinkTakes_Own(m) ==                     \* variant: its own come back to it
  "to" \notin DOMAIN m /\ m.type # "start_task"

SinkTakes(m) ==
  /\ "to" \notin DOMAIN m
  /\ m.type # "start_task"
  /\ m.type = "respond_request" => m.from # Tui

Kept(kept, m) == IF SinkTakes(m) THEN Append(kept, m) ELSE kept

Emitted(messages) == FoldLeft(Kept, <<>>, messages)

-----------------------------------------------------------------------------
TuiInit ==
  /\ now = 0 /\ events = <<>> /\ queue = <<>> /\ commands = <<>> /\ out = <<>>
  /\ open = [t \in {} |-> NoTask]
  /\ inbox = <<>> /\ channel = <<>> /\ keys = <<>>
  /\ view = [id \in {} |-> NoTask]
  /\ agent = NewAgent /\ screen = NewAgent /\ machine = NewMachine
  /\ injected = FALSE
  /\ asked = <<>> /\ removed = {} /\ acts = 0
  /\ copies = [id \in EventIds |-> 0]
  /\ prompted = [k \in 1..MaxDialogs |-> 0]

Session == CHOOSE t \in Tasks : TRUE

(* Each decision the core accepts goes to the adapter loop, and that of a  *)
(* phone to the sink of the interface as well.                             *)
Accepts(c, id) ==
  copies' = IF RespondVerdict(queue, id) # "ok" THEN copies
            ELSE [copies EXCEPT ![id] = @ + (IF c = Tui THEN 1 ELSE 2)]

CoreHandles(m) ==
  \/ /\ m.do = "raw"
     /\ RawEvent(m.kind, m.dialog > 0, Session, "Other", 1)
     /\ asked' = Append(asked, m.dialog)
     /\ UNCHANGED copies
  \/ /\ m.do = "outcome"
     /\ IF m.ok THEN Delivered(m.id, m.decision) ELSE DeliveryFailed(m.id)
     /\ UNCHANGED <<asked, copies>>
  \/ /\ m.do = "respond"
     /\ ClientRespond(Tui, m.id, m.decision)
     /\ Accepts(Tui, m.id)
     /\ UNCHANGED asked
  \/ /\ m.do = "dismiss"
     /\ ClientDismiss(Tui, m.id)
     /\ UNCHANGED <<asked, copies>>

CoreTakes ==
  /\ inbox # <<>>
  /\ CoreHandles(Head(inbox))
  /\ inbox' = Tail(inbox)
  /\ channel' = channel \o Emitted(out')
  /\ UNCHANGED <<shell, view, injected, prompted, removed, acts>>

(* The adapter loop hands the interface what the core has for the agent.   *)
AdapterLoop ==
  /\ TakeCommand
  /\ channel' = Append(channel, Head(commands))
  /\ UNCHANGED <<shell, past, inbox, view, injected>>

-----------------------------------------------------------------------------
(* Users.  What a phone sends is handled by the core as it arrives.        *)

Act(what) ==
  /\ what \in Acts /\ acts < MaxActs
  /\ acts' = acts + 1

PhoneDecides ==
  /\ Act("phone")
  /\ \E id \in Ids(queue), decision \in Answered :
       /\ RespondVerdict(queue, id) = "ok"
       /\ ClientRespond(Phone, id, decision)
       /\ Accepts(Phone, id)
  /\ channel' = channel \o Emitted(out')
  /\ UNCHANGED <<shell, inbox, view, injected, asked, prompted, removed>>

PhonePrompts ==
  /\ Act("phone_prompt")
  /\ ClientStartTask(Phone)
  /\ channel' = channel \o Emitted(out')
  /\ UNCHANGED <<shell, inbox, view, injected, asked, copies, prompted, removed>>

(* Requests as the interface lists them, and the one on top.               *)
Requests == {id \in DOMAIN view : IsActionable(view[id])}

OnTop(id) ==
  id \in Requests /\ \A x \in Requests \ {id} : Precedes(view, id, x)

(* An answer on one of its screens: the entry stays until the core tells.  *)
OwnAnswers ==
  /\ Act("answer")
  /\ \E id \in Requests, decision \in Answered :
       OnTop(id) /\ Sends(<<RespondTo(id, decision)>>)
  /\ CoreIdle
  /\ UNCHANGED <<shell, channel, view, injected, asked, copies, prompted,
                 removed>>

Take(ids) ==
  /\ view' = [id \in DOMAIN view \ ids |-> view[id]]
  /\ removed' = removed \cup ids

(* In the overlay it is gone at once, whatever becomes of it.              *)
OverlayApproves ==
  /\ Act("approve")
  /\ \E id \in Requests :
       OnTop(id) /\ Sends(<<RespondTo(id, "Approved")>>) /\ Take({id})
  /\ CoreIdle
  /\ UNCHANGED <<shell, channel, injected, asked, copies, prompted>>

OverlayDismisses ==
  /\ Act("dismiss")
  /\ Requests # {}
  /\ LET ids == SetToSeq(Requests)
     IN  Sends([i \in DOMAIN ids |-> DismissIt(ids[i])])
  /\ Take(Requests)
  /\ CoreIdle
  /\ UNCHANGED <<shell, channel, injected, asked, copies, prompted>>

-----------------------------------------------------------------------------
(* The terminal.  Reading it brings the screen up to date.                 *)

Key(what, id) == [what |-> what, id |-> id]

Inspect(seen) ==
  /\ machine' = [Update(machine, seen) EXCEPT !.report = NoReport]
  /\ screen' = seen

(* A key of the user's goes straight to the agent.                         *)
KeyPress(what) ==
  /\ Act(what)
  /\ what \in {"enter", "move"}
  /\ keys' = Append(keys, Key(what, 0))
  /\ Inspect(agent)
  /\ Sends(Raw(Update(machine, agent)))
  /\ CoreIdle
  /\ UNCHANGED <<agent, channel, view, injected, asked, copies, prompted,
                 removed>>

(* Launching an agent types its command into the shell, whatever runs there.*)
Launches ==
  /\ Act("launch")
  /\ keys' = Append(keys, Key("enter", 0))
  /\ screen' = agent
  /\ CoreIdle
  /\ UNCHANGED <<agent, machine, inbox, channel, view, injected, asked, copies,
                 prompted, removed>>

TuiTick ==
  /\ Inspect(agent)
  /\ Sends(Raw(Update(machine, agent)))
  /\ CoreIdle
  /\ UNCHANGED <<agent, keys, past, channel, view, injected>>

(* The main loop reads before it waits, and draws: nothing is inspected.   *)
Pump ==
  /\ screen # agent
  /\ screen' = agent
  /\ CoreIdle
  /\ UNCHANGED <<agent, keys, machine, past, inbox, channel, view, injected>>

(* A prompt is typed into the chat, or as a command of the shell; one like *)
(* the last, a moment after it, is dropped.                                *)
StartsPrompt ==
  /\ injected' = TRUE
  /\ machine' = [StartPrompt(machine) EXCEPT !.report = NoReport]
  /\ Sends(Raw(StartPrompt(machine)))
  /\ screen' = agent
  /\ keys' = Append(keys, Key("prompt", 0))
  /\ prompted' = [k \in DOMAIN prompted |->
                    prompted[k] + (IF machine.current.dialog = k THEN 1 ELSE 0)]
  /\ UNCHANGED agent

Prompt ==
  \/ StartsPrompt
  \/ injected /\ UNCHANGED <<shell, inbox, injected, prompted>>

LocalPrompt ==
  /\ Act("prompt")
  /\ Prompt
  /\ CoreIdle
  /\ UNCHANGED <<channel, view, asked, copies, removed>>

(* The window in which a prompt is a duplicate, and the grace of a new one,*)
(* come to an end.                                                         *)
WindowEnds ==
  /\ \/ injected /\ injected' = FALSE /\ UNCHANGED machine
     \/ machine.recent /\ machine' = [machine EXCEPT !.recent = FALSE]
        /\ UNCHANGED injected
  /\ CoreIdle
  /\ UNCHANGED <<agent, screen, keys, past, inbox, channel, view>>

(* A decision is typed into whatever dialog the screen shows.              *)
Answers(m) ==
  LET live == screen.state.kind = "dialog"
      seen == IF live THEN agent ELSE screen
  IN
  /\ keys' = IF live THEN Append(keys, Key("enter", m.id)) ELSE keys
  /\ Inspect(seen)
  /\ Sends(<<Outcome(live, m.id, m.decision)>> \o Raw(Update(machine, seen)))
  /\ copies' = [copies EXCEPT ![m.id] = @ - 1]
  /\ UNCHANGED agent

-----------------------------------------------------------------------------
(* What the interface shows of the queue.                                  *)

ApplyState_Superseded(entry, m) ==      \* variant: superseded entries stay
  [entry EXCEPT !.state = m.state, !.resolution = m.resolution]

ApplyState(entry, m) ==
  [entry EXCEPT !.state = m.state, !.resolution = m.resolution,
                !.superseded = @ \/ m.superseded]

ApplyScore(entry, m) ==
  [entry EXCEPT !.score = m.score, !.escalation = m.escalation]

Applied(shown, m) ==
  IF m.type = "event"
  THEN [id \in DOMAIN shown \cup {m.id} |->
          IF id = m.id THEN m.entry ELSE shown[id]]
  ELSE [id \in DOMAIN shown |->
          CASE id # m.id -> shown[id]
            [] id = m.id /\ m.type = "score_update" -> ApplyScore(shown[id], m)
            [] id = m.id /\ m.type = "state_update" -> ApplyState(shown[id], m)]

Handles(m) ==
  \/ /\ m.type \in {"event", "score_update", "state_update"}
     /\ view' = Applied(view, m)
     /\ UNCHANGED <<shell, inbox, injected, copies, prompted>>
  \/ /\ m.type \in {"respond", "respond_request"}
     /\ Answers(m)
     /\ UNCHANGED <<view, injected, prompted>>
  \/ /\ m.type = "start_task"
     /\ Prompt
     /\ UNCHANGED <<view, copies>>

TuiHandles ==
  /\ channel # <<>>
  /\ Handles(Head(channel))
  /\ channel' = Tail(channel)
  /\ CoreIdle
  /\ UNCHANGED <<asked, removed, acts>>

-----------------------------------------------------------------------------
(* The agent reads a key; at work it does nothing with it.                 *)

Reads(key) ==
  CASE agent.state.kind = "dialog" /\ key.what = "move" ->
         [agent EXCEPT !.state.moved = ~@]
    [] agent.state.kind = "dialog" /\ key.what # "move" ->
         [agent EXCEPT !.state = Shown("working"), !.worked = TRUE]
    [] agent.state.kind = "idle" /\ key.what = "prompt" ->
         [agent EXCEPT !.state = Shown("working"), !.task = TRUE,
                       !.worked = FALSE]
    [] OTHER -> agent

AgentReads ==
  /\ keys # <<>>
  /\ agent' = Reads(Head(keys))
  /\ keys' = Tail(keys)
  /\ CoreIdle
  /\ UNCHANGED <<screen, machine, past, inbox, channel, view, injected>>

AgentShows ==
  /\ agent.state.kind = "working"
  /\ \/ agent' = [agent EXCEPT !.state = Shown("idle"), !.worked = TRUE]
     \/ /\ agent.dialogs < MaxDialogs
        /\ agent' = [agent EXCEPT !.state = Dialog(agent.dialogs + 1),
                                  !.dialogs = @ + 1]
  /\ CoreIdle
  /\ UNCHANGED <<screen, keys, machine, past, inbox, channel, view, injected>>

TuiNext ==
  \/ CoreTakes \/ AdapterLoop \/ TuiHandles
  \/ PhoneDecides \/ PhonePrompts
  \/ OwnAnswers \/ OverlayApproves \/ OverlayDismisses
  \/ LocalPrompt \/ Launches \/ KeyPress("enter") \/ KeyPress("move")
  \/ TuiTick \/ Pump \/ WindowEnds
  \/ AgentReads \/ AgentShows

TuiSpec == TuiInit /\ [][TuiNext]_tui

-----------------------------------------------------------------------------
(* Nothing is on its way between the core and the interface.               *)
Settled == inbox = <<>> /\ channel = <<>> /\ commands = <<>>

Announcing(k) == {id \in DOMAIN asked : asked[id] = k}

(* OwnDecisionOnce: a decision made in the interface reaches its terminal  *)
(* at most once, and one of a phone at most twice, by the sink and by the  *)
(* adapter loop; no sooner than the core accepted it, and whatever else is *)
(* decided of the same request, or fails, meanwhile.                       *)
OwnDecisionOnce == \A id \in EventIds : copies[id] >= 0

(* AnnouncedOnce: a dialog is announced once, and once more for each prompt*)
(* started over it, wherever its cursor moves and however often the screen *)
(* is read.                                                                *)
AnnouncedOnce ==
  \A k \in 1..MaxDialogs :
    Cardinality(Announcing(k))
      + Cardinality({i \in DOMAIN inbox :
                       inbox[i].do = "raw" /\ inbox[i].dialog = k})
      <= 1 + prompted[k]

(* ViewFollowsQueue: when nothing is on its way the interface shows of each*)
(* event what the queue holds, but for those it took off itself.           *)
ViewFollowsQueue ==
  Settled =>
    /\ DOMAIN view \cup removed = Ids(queue)
    /\ \A id \in DOMAIN view : view[id] = queue[id]

(* DialogStaysAsked: a dialog that is on the screen, that no key is on its *)
(* way to, and that the interface has seen, can still be answered: what    *)
(* announced it last is unresolved and shown to phones, unless somebody    *)
(* dismissed it.                                                           *)
DialogStaysAsked ==
  LET k == agent.state.dialog IN
  (Settled /\ keys = <<>> /\ k > 0 /\ machine.current.dialog = k)
    => /\ Announcing(k) # {}
       /\ LET entry == queue[CHOOSE id \in Announcing(k) :
                               \A x \in Announcing(k) : x <= id]
          IN  entry.state = "Dismissed" \/ IsActionable(entry)

(* AnswersItsOwn: README.md says of answers that "stale responses cannot be*)
(* applied to a later task": keys typed for a decision are read by the     *)
(* dialog the decision is about, or by none.                               *)
AnswersItsOwn ==
  [][LET key == Head(keys) IN
     keys # <<>> /\ keys' = Tail(keys) /\ key.id > 0
         /\ agent.state.kind = "dialog"
       => asked[key.id] = agent.state.dialog]_tui

(* FinishedOnce: the state machine returns an event only "if an actionable *)
(* state transition occurred": what the agent finished is reported once.   *)
FinishedOnce ==
  [][\A m \in {inbox'[i] : i \in Len(inbox) + 1..Len(inbox')} :
       m.do = "raw" /\ m.kind = "task_completed"
         => machine.current.kind # "completed"]_tui

=============================================================================
