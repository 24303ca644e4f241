# AgentDesk in TLA+

AgentDesk puts a phone between a person and the coding agents on their laptop. A
daemon on the laptop runs an agent in a terminal, reads its screen, turns what it
sees into events, orders them, and pushes them to phones; a decision made on a
phone travels back and is typed into the agent's terminal. These modules model
that path, from the agent's screen to the queue, on to the phones and back, as the
Rust code in `core/` and the Dart code in `mobile/` implement it. Line numbers
below are those of the sources; `PROJECT.json` lists, for every definition, the
lines it stands for.

Run a check with `tlc -workers 2 -config MCDaemon.cfg MCDaemon`, a proof with
`tlapm CoreTask_proofs.tla`.

## Inventory

| Component | State it keeps | Operations | What makes it correct |
|---|---|---|---|
| Event model (`agentdesk-model`) | none | kinds, tiers, entries | an entry starts in the tier of its category, unresolved if it is a request |
| Classifier, scoring, processor | none but the last sequence number | `classify`, `score`, `process_raw_event` | every kind gets one verdict; a score stays within 0..100 |
| Priority queue (`queue.rs`) | one entry per event, never removed | ack, dismiss, respond, delivery outcome, supersede, escalate, rescore, snapshot | a decision is taken once; attention (seen, dismissed) never decides a request |
| Task tracker (`tracker.rs`) | the open tasks: their working events and requests, level | `observe_event`, `tick` | agrees with the queue about what is current; what it escalates is shown |
| Core task (`core_task.rs`) | store, queue, tracker, log store, sinks | one command at a time | every change is pushed; a decision is pending exactly while somebody carries it |
| Antigravity adapter (`antigravity/`) | lifecycle, screen, pending request, grace of the last answer, write-in, buffered events | `poll`, `respond_with_response`, `start_prompt` | a dialog is announced once, answered once, by an answer meant for it, and comes back if it stays |
| Daemon loop (`main.rs`) | the adapter, a held prompt, two channels | poll, deliver, report, respawn | every decision handed over is reported; the loop and the core never wait for each other |
| Antigravity screen (`screen.rs`, `state_machine.rs`, `input.rs`) | a grid of cells, scrollback, a half-read sequence | print, control sequences, resize; detect a state, encode an answer | the dialog read is the one shown; the keys of an answer come to what it says; a turn is reported whole |
| ACP adapter (`acp.rs`) | a JSON-RPC session, pending permissions | the same contract | one answer to a permission, meaning what was decided; the end is noticed |
| Log store (`log_store.rs`), log screen of the phone | a ring of lines, pinned windows; the pages put together | append, pin, page, tail | a page returns the lines asked for, or says that they are gone |
| Connections (`connection.rs`, `server.rs`) | one task each, a sink at the core, a slow flag | handshake, snapshot, pump, close | a client misses no change while it is connected; one that is gone is let go |
| Relay (`agentdesk-relay`) | sessions: host, clients, devices, pairing | register, forward, close | the two ends of a session are the live ones; a client is authorised |
| Pairing and devices (`pairing.rs`, `device.rs`) | one session, a file of devices | create, consume, register, revoke | a secret pairs once; a revoked device stays out |
| Terminal interface (`tui/`) | agent sessions of its own, a copy of the queue | announces dialogs, decides, types decisions of others | a dialog is announced once; a decision is typed into its own dialog; the copy follows the queue |
| Phone (`mobile/`) | a mirror of the queue, outstanding commands | snapshot, push, command, reconnect | the mirror converges to the queue |

How they interact. The adapter is polled by the loop; its events go over a
bounded channel to the core, which stores them, enters them in the queue, lets
the tracker supersede what they outdate, and hands messages to the sink of each
client. A client's decision comes back to the core, which marks the request
`PendingDelivery` and puts a command on a second bounded channel; the loop takes
it, lets the adapter type it, and sends the outcome to the core over the first
channel. Phones reach the core through the relay: one trunk carries them all. The
terminal interface can hold the daemon: it is then adapter and client at once.

What is hard. The agent can change its screen at any time, between the moment a
dialog is read, the moment a person answers it, and the moment the answer is
typed; it can die in between. The channels are bounded: a sender drops, undoes or
waits. The queue and the tracker record the same tasks twice. Scores depend on a
clock. Phones lose connections, and several of them decide at once.

Every hazard, with its line and the properties that would catch it, is in
`PROJECT.json` under `hazards`.

## Modules

| Module | Models | State |
|---|---|---|
| `EventModel` | `event.rs`, `queue.rs` (model), `classifier.rs`, `scoring.rs`, `processor.rs` | none: operators |
| `PriorityQueue` | `queue.rs` | none: operators from queue to queue |
| `TaskTracker` | `tracker.rs` | none: operators on the map of open tasks |
| `CoreTask` | `core_task.rs`; uses the three above | `now events queue open commands out` |
| `RequestLifecycle` | what the core promises about answers | `status commands` |
| `LogStore` | `log_store.rs`, the lines `processor.rs` writes and pins | `ring owner ranges windows` |
| `LogViewer` | the phone's log screen (`event_detail_screen.dart`); composes `LogStore` | the above, `viewed shown asked answer loads` |
| `AntigravityAdapter` | `antigravity/adapter.rs` and what it uses | `adapter terminal unread alive shows` |
| `ScreenDetection` | the parser of dialogs in `antigravity/state_machine.rs` | none: operators on the rows of a screen |
| `KeyEncoding` | `antigravity/input.rs` | none: from an answer and a dialog to keys |
| `Dialogs` | the agent's interface, external, against `ScreenDetection` and `KeyEncoding` | `above live left` |
| `Transcript` | the report on a finished turn in `antigravity/state_machine.rs` | `printed turn phase report` |
| `Screen` | `antigravity/screen.rs`, the terminal emulator | `screen paper reads` |
| `AcpAdapter` | `acp.rs` and the agent at the other end of its pipes | `adapter emitted channel pipe agent inbox answers failures` |
| `Daemon` | `main.rs`: the loop; composes `CoreTask` and `AntigravityAdapter` | theirs, `upstream loop held session asked`, history |
| `PhoneMirror` | `agentdesk_state.dart` | none: operators from mirror to mirror |
| `RelayTrunk` | `connection.rs` (the trunk), `server.rs` (reconnection), the relay's `lib.rs`, `connection_service.dart`; composes `CoreTask` and `PhoneMirror` | the core's, those of trunk, relay and phones |
| `ClientConnection` | `connection.rs` (a session of the server on the laptop), `server.rs` (accepting), `status.rs` (who is shown), what the core sends of each command | `accepted inbox sinks changes telling at outbound held notified shown wire left seen asks` |
| `Pairing` | `pairing.rs`, `device.rs`, `interactive.rs` and the pairing part of `connection.rs`, the relay and the phone | `shown expired file waiting memory claims registry disk menu trunk up wire old relay phone`, history |
| `TerminalInterface` | `tui/app.rs`, `tui/state.rs`, `tui/mod.rs`, the state machine of `state_machine.rs`; composes `CoreTask` | the core's, `inbox channel view agent screen keys machine`, history |
| `CoreTask_proofs` | theorems about `CoreTask` | |
| `LogStore_proofs`, `Pairing_proofs`, `AcpAdapter_proofs`, `AntigravityAdapter_proofs`, `Daemon_proofs`, `ClientConnection_proofs`, `TerminalInterface_proofs` | theorems about these; the first also about `LogViewer` | |
| `MC*` | instances for TLC | |

Operators named `X_Something` next to an operator `X` are variants of it with a
plausible mistake in them; nothing uses them but `PROJECT.json`, where each
property is paired with one that it must refute.

**Core.** A command of the core runs to its end before the next one, so each is
one action. `queue` and `events` are sequences indexed by arrival: the code keys
entries by a UUID drawn with the sequence number and never removes any, so the
number stands for both. What a handler gives the sinks is `out`, in order; `out`
takes no part in any guard. The watchdog and the rescoring are `Tick`; time moves
by `Advance`, bounded by `MaxTime`. An answer that finds the channel to the
adapter full is announced, forwarded and undone within one action
(`RespondOverflow`), as the code does without yielding.

**Adapter.** A screen is a record: a dialog (menu, question, chat reply, write-in
field), work, or a plain state; two dialogs are the same request when
`SameRequest` says so, as in the code, by content and not by cursor. `terminal` is
what the agent shows, `adapter.screen` what the adapter has read of it, and
`unread` says that the two may differ. `AgentShows` may show any screen at any
time: the person at the laptop may answer too. A write to a dead terminal fails;
when it fails, the process is dead from then on (`Writes`). Deadlines are the
actions `GraceEnds` and `WriteInLate`: the five and ten seconds become "before"
and "after", in their order.

**Daemon.** The loop alternates between polling (every 50 ms) and waiting for a
command; what it has to send to the core is `loop.outgoing`, and it waits while
`upstream` is full. The core takes from `upstream` and never waits. A prompt
starts a new process if the last one is over (`session`), and is held until the
chat can take it otherwise. `origin` and `answers` are history variables.

**Relay.** The daemon reaches all its phones over one connection to the relay, the
trunk. What the core hands to a trunk passes four places: the bounded `sink` of the
core's client, the `wire` (the writer's channel and the socket), `relaying`, the
frame the relay gives to the phones in `todo` one after the other while it reads no
further, and the bounded `down` of each connection. A phone's commands go up
through the trunk to `inbox`, the command channel of the core. `trunk` holds every
trunk ever opened, because the handler of a superseded one lives on; `host` is the
one the relay holds for the session. A connection of a phone takes one of the
places `Conns`, so that the relay may still keep the old one while the phone is on
a new one; `via` is the trunk that was host when the phone came, which is where the
relay sends what that phone says, whoever is host by then. A loss is several
steps: the trunk breaks, each end notices in a step of its own, and what was on the
wire is lost from some frame on. A phone keeps its mirror through a loss and a
restart of the daemon; the core keeps nothing. `heard` (the trunks that a
connection was given frames of) and `answeredBy` (whose commands a phone took the
replies for) are history. `Patient` says that a phone's back-off outlasts what is
on its way. Time stands still here: scores change by commands only.

**Connections.** `ClientConnection` takes the other side of the fan-out: the tasks of
the clients that connect to the server on the laptop, beside the relay. `at` is where
a task is between two awaits, and every await that can wait (for room in the command
channel, for the client to read, for something to select) is a step of its own. The
core handles one command at a time but sends the messages it makes one after the
other (`telling`), so a task can run in between, as it can in the code. Of the queue
only the number of its changes is kept: each message carries the number it was made
at, and an update is one change.

**Log store.** A line is its number. The ring of an agent holds the last `Capacity`
lines; an event owns the range of lines written with it, and one that asks for
attention pins a window of lines around them, which is a copy and is added to
by later lines while it has room. `LogViewer` adds the phone: the tail first,
then earlier pages by offset, each request and each answer a step of its own, so
that the agent writes in between.

**Screen, dialogs, transcript.** Between the bytes an agent writes and what the adapter
makes of them lie three levels, each a module. `Dialogs` has a run of its own; `output`
checks the other two, which share no variable, by following one or the other. `Screen` is
the emulator: a byte is its class, and a read may end anywhere in a control sequence.
`Dialogs` starts from rows: the agent prints a transcript and draws a dialog under it,
leaves residue of earlier dialogs behind, and a person moves the same cursor. Which
predicate a row satisfies (`"header"`, `"option"`, ...) is an input, not derived from
characters; how rows make up a dialog is the code's. The keys an answer is encoded as are
then given to the agent's interface, and the property looks at what they come to.
`Transcript` is the report on a finished turn: the rows since the last prompt, what
scrolled off without its colours, and from these the summary, the steps and the final
answer. The rows the code takes for a prompt are of three kinds. `"prompt"` is recognised
by its words; `"prompt_no"` holds "Yes," or "No," and is recognised by its colour alone,
so not when it has scrolled off (`state_machine.rs:1926`); `"quote"` and `"quote_no"` are
lines of the agent: ones that begin with "> ", contain "agy -i" or look like the prompt of
a shell are taken for the user's (1924-1949), or for lines of the input and left out. Of
the attributes of a cell `Screen` keeps reverse video and whether the foreground is a
colour of the palette, which is what the detector reads, with the parameters that take
others with them (`Taken`).

**ACP adapter.** The reader threads put what the agent writes into `channel`; `Poll`
takes all of it, line after line. The agent answers or refuses
each of the three requests of the handshake, asks for permissions with the options
of `Offers`, and dies at any point, with an answer on its way to it or not. A poll is
several steps, its beginning, each line and its end (`PollStarts`, `PollReads`,
`PollEnds`), because a reader thread may add a line while it goes on.

**Pairing.** `create_session` and the menus of `interactive.rs` are processes of their
own that share two files with the daemon, so codes and devices exist up to three
times: on disk, in the daemon, and (tokens) in the relay. A pair request is two
steps, the code being claimed before the handler waits for the lock of the registry. A
restart loses the memory of the daemon or
of the relay; an upset is a restart, a break of the trunk, or a menu's change. When the
trunk breaks, what is on the wire stays there until the relay has read it or seen the
end. If the next trunk connects before that, the wire becomes one of `old`: the
handler of each earlier trunk goes on reading, and what it reads changes the
session although its trunk is not the host's any more (`lib.rs:456`). The registry is
saved in place (`device.rs:174`): a save that is cut short, by the end of the daemon
while a handler is at it or by a menu of another process, leaves a file that is read as
no devices (86). `dropped` and `stale` are history: the devices whose entry a menu
changed or a torn save lost, and those of whom the relay last heard from an old trunk.

**Terminal interface.** The interface reads its shell every 50 ms or so and ticks
every 250 ms; what it announces goes through `inbox` to the core it contains, and
what the core decides comes back on one `channel` from two feeders: the sink, and
the loop that takes the adapter's commands. `view` is the copy of the queue in
`state.rs`. The model takes dialogs to differ, decisions to be approve and deny,
one session, and none of the channels (64 places and more) to fill.

## Runs

| Run | Question | Bounds |
|---|---|---|
| `core` | Do tracker and queue agree; is a request answered once, every change pushed, no entry underrated? | 1 task and none, 1 client, 2 events of 3 kinds, time 600 in steps of 300 (both thresholds), a channel of 1 |
| `logs` | Are pages honest, do windows outlive the ring, does the phone put one piece together? | a ring of 3, pages of 2, 2 events, 8 lines in bursts of 1 and 4, 1 decision, 3 loads |
| `adapter` | Is every number an event, in which steps is a dialog left unannounced, does one that outlives its answer come back? | 2 menus, a question with a write-in, a reply, a spinner; 4 screens shown, 6 numbers: enough for each of the three ways |
| `acp` | Is a permission answered once, with what was decided, and is the end noticed? | 2 permissions, 4 ways to offer options, 1 update, 2 failures |
| `dialogs` | Is the dialog read the one that is open, and do the keys come to what the answer says? | 2 questions, 3 menus, 1 line printed, 1 line left behind, text of 2 lines |
| `output` | Is printed text kept, however it is cut and the window resized; does a report tell its own turn, whole? | windows of 2 to 4 cells, 4 reads, a scrollback of 2; 2 turns, 2 kinds of prompts and 10 of other lines (2 of them like prompts), 6 lines, 3 rows of screen |
| `daemon` | Is a decision typed once, into its own dialog, and reported? | a question with a write-in, a reply, 2 screens, 2 commands, channels of 1, 1 process |
| `relay` | When does a phone show the queue, is it told when its trunk ends, does it come back? | 1 phone, 2 connections, 2 trunks, 1 fault, 1 request, 4 attempts, sink of 2, channels of 1, `Patient` |
| `clients` | Does a client get every change once and in order, from its first message on, and is one that is gone let go? | 1 client, 3 changes, 2 frames of the client, channels of 2, a wire of 1 |
| `pairing` | Is a code used once, and is a phone that was answered let in? | 2 codes, one of which may expire, a phone through the relay and a local one, 2 devices, 2 upsets, 2 tries, a wire of 2: 9 million states |
| `tui` | Is a dialog announced once, a decision typed as often as it should be, does the copy follow the queue? | 2 dialogs, 3 acts of users at the keyboard and on a phone, 5 events, a channel of 4 |
| `tui_astray` | Are keys read by the dialog they were meant for? No | the same, 2 acts of the phone |

Why these are enough. An interference in the core involves at most two events of one task
(a request and the one that outdates it) and one command in delivery. What needs more
events or tasks, the agreement of tracker and queue, the levels and the scores, is proved
for any number. Channels of one place are full as soon as anything is in them, so both the
overflow path and the waiting path are taken. A ring of three wraps twice within eight
lines, and a burst of four replaces it whole. Two menus are what it takes for an answer to
meet a dialog that is not its own; a third would only rename one of them. In `daemon` the
question is read and asked for again as a text entry, so two dialogs exist there as well.
A dialog is recognised from the bottom up, and one line of residue and one of the
transcript above it are next to it in every combination; a second is only looked at after
the first was not the one sought. A window of two by two cells wraps, scrolls and has
margins on all sides at once. Between the core and the phones, one phone suffices where
the question is what that phone shows: the relay treats each connection alike and phones
do not see each other, except by replies. Two trunks are an old one and the one that
supersedes it, two connections the same for a phone. The last trunk never breaks
(`TrunkBreaks`), so that "as soon as everything has arrived" can be asked. The channel of
a client of the laptop has room for an update, a result and a snapshot in every order, and
is full with the next; clients do not see each other but through the command channel,
which the agent's events fill as well. Pairing needs two codes (an old and a new one), a
phone on the trunk that pairs twice and comes back, and one that is not on it; two upsets
are what it takes for a trunk to break and the daemon or the relay to restart, with an old
trunk still being read. More phones on the trunk, more upsets and more old trunks are the
theorem's. In `tui`, the second dialog is the one keys go astray to, and three acts are a
decision, one that competes with it and a prompt or a key between them.

`core`, `adapter`, `daemon` and the two runs of the terminal interface use a view without
what the last step put out: no guard reads it, and of the properties only those of single
steps, which are evaluated on every step. The counters `MaxEvents`, `MaxTime`, `MaxShows`,
`MaxSeq`, `MaxCommands`, `MaxSessions`, `MaxTrunks`, `MaxFaults`, `MaxRequests`,
`MaxAttempts`, `MaxLines`, `MaxDecisions`, `MaxLoads`, `MaxAsks`, `MaxUpdates`,
`MaxFailures`, `MaxPrints`, `MaxLeft`, `MaxText`, `MaxTurns`, `MaxReads`, `MaxCodes`,
`MaxExpired`, `MaxUpsets`, `MaxTries`, `MaxActs`, `MaxDialogs`, `MaxClients` and
`MaxChanges` exist to bound the model; the code has none of them. The runs do not check
for deadlock: when the bounds are used up, nothing is left to do.

**The properties.** `RequestAnsweredOnce` says the core implements `RequestLifecycle`:
unresolved, one decision in delivery, then final or reopened, with a command queued
exactly when a decision is accepted. `PushesTellAll` says a client that applies what it is
sent, in order, holds the queue. `OutlivesTaskByReopenOnly` names the only way a request
can outlive its task. `PendingHasOneCarrier`, `DecisionTypedOnce` and
`AnswersItsOwnDialog` follow a decision from the queue into the terminal and back.
`SilentOnlyThreeWays` lists the steps that leave a dialog unannounced;
`EveryNumberIsAnEvent` is what the check for stale answers rests on. `OneTrunkShowsQueue`
says what a phone may rely on: as long as its connection was given the frames of one trunk
only and the core still holds that trunk's sink, it shows every live entry as it is once
nothing is on its way. `PhoneReturns` says a phone is connected again and again, and names
the three ways in which it is not: its hello went to a trunk that has been superseded, the
core has dropped the sink, or the trunk is lost and the daemon has not heard of it.
`AsksWhatIsShown` and `AnswersTakeEffect` close the loop between parser and encoder:
neither looks at rows or keys, only at what the agent asks and what it is told.
`NothingMissed` says that what a client has read last, what is written to it, and what
waits for it is one sequence without a gap, which ends with the present as long as the
core has a sink of it. `LeftIsLetGo` says that a connection that has ended ends at the
core too, wherever its task was. `PrintedTextKept` compares the emulator with a printer
that never scrolls. `ReportTellsThisTurn` compares a report with what was printed in the
turn, and says how far the two may differ when a line of the agent was taken for a prompt,
or a prompt was forgotten. `PairedIsAdmitted` relates the token a phone holds to registry,
file and relay after any restart, but for a device that a frame of an old trunk has made
stale. `OwnDecisionOnce` counts keys per decision; `DialogStaysAsked` says what is on the
screen can be answered.

**Fairness.** `FairSpec` of `ClientConnection` assumes weak fairness of the core and
strong fairness of each task and of its reading the end of the connection: a task that
waits for room is served in turn, and `select!` draws among the branches that are ready,
so none is passed over for ever. The client owes nothing. `DaemonFairSpec` assumes weak
fairness of the loop and of the core: both are tasks of the runtime, the loop sleeps at
most 50 ms per round, and neither holds a lock. `FairSpec` of `AntigravityAdapter` assumes
that it is polled and that time passes (`GraceEnds`, `WriteInLate`); that of `AcpAdapter`
that it is polled and that the reader of a process that has died meets the end of its
pipe. The agents owe nothing: one may never show another screen, answer or die. Neither do
the clients. `RelayFairSpec` assumes weak fairness of every handler of the daemon and of
the relay (each is a task of its runtime; only a full channel makes it wait), and of the
two timers that reconnect. Neither end of the trunk is assumed to notice that it is lost:
neither the daemon (`connection.rs:562`) nor the relay (`lib.rs:456`) pings or limits the
time it reads. That the relay lets go of a connection whose phone is gone is assumed, but
only frees its place in `Conns`, of which the code has as many as it needs. A push, a
break, a command or a restart is never assumed either. `PhoneReturns` also needs
`Patient`: a phone that reconnects faster than frames travel can be refused a snapshot
each time, because an old push meets its welcome.

## What the runs found

`tui_astray`: in the in-process terminal interface a decision of a phone reaches
the interface twice, forwarded by the core to its sink (`core_task.rs:428`) and
passed on by the adapter loop (`mod.rs:388`). Both copies are typed into whatever
dialog is shown (`app.rs:557` compares neither event nor number), so if the agent
asks again in between, the second copy approves a request nobody has seen.
`README.md:313` says stale responses cannot be applied to a later task.

Some properties that hold are stated with an exception, and the exception is what
the code does where one would wish for none:

* `SilentOnlyThreeWays`: an answer that meets another dialog than its own expires its
  request and records the new dialog as the current state without opening a
  request for it (`adapter.rs:795`). No client is told until the screen changes. A
  write-in is typed although another dialog has been announced in between
  (`adapter.rs:411`), and the adapter then holds the request of that dialog while it
  compares screens with the entry. If the dialog comes back and is answered before the
  next poll, the poll that finds the grace period over asks about the entry, which is
  no longer shown (`adapter.rs:706`).
* `OneTrunkShowsQueue`: the handler of a superseded trunk goes on giving its frames
  to the phones (`lib.rs:520`), so only a phone that heard one trunk shows the
  queue; and identifiers are drawn from a fixed seed (`config.rs:299`), so after a
  restart a phone shows the event of the last run under a new entry, where
  `COMMUNICATION.md:117` says they are all new.
* `PhoneReturns`: when the sink of a trunk overflows, the core drops it and
  notifies nobody who listens (`connection.rs:624`): the trunk stays open and
  carries nothing, where `COMMUNICATION.md:116` says it is closed. And a push
  between welcome and snapshot (`connection.rs:629`) makes the phone give up the
  connection, where `COMMUNICATION.md:46` says the snapshot follows immediately;
  the phone returns because it tries again. A trunk that is lost while nothing is sent on
  it is noticed by neither end, and the phones behind it stay away until it is.
* `ReportTellsThisTurn`: after a line of the agent that looks like a prompt, a report
  has the rest of the turn only (`state_machine.rs:1924`). When a prompt with "Yes," or
  "No," in it has scrolled off, the report begins in an earlier turn, or with the first
  tool (1926, 1959).
* `PairedIsAdmitted`: the relay goes on applying the frames of a superseded trunk, so an
  old list or token can take the place of a newer one, and a phone that has just paired
  is refused until the trunk connects again (`lib.rs:456`, 588). A save cut short loses
  every device (`device.rs:174`, 86).
* `AnswersTakeEffect`: in a question with boxes the cursor can stand on the write-in
  row; if no box has to change, the keys end on that row. `AsksWhatIsShown`: a text
  entry of more than two lines is not recognised as one.
* `AnnouncedOnce`: a prompt started over a dialog announces it once more.

Further statements are defined in the modules and are false; no run checks them, a
reader can, with the bounds named:

* `Daemon`: `AnswersItsOwnDialog` with `MaxSessions = 2`: a process started for a new
  prompt keeps the task id and counts its events from zero, so an answer to a
  request of the dead process can carry the number of one of the new process, and
  is typed there (`main.rs:506`), which `SECURITY.md:70` excludes.
* `RelayTrunk!AlwaysShowsQueue`, with 2 events: a daemon that reconnects before the
  relay has noticed the loss replaces the host and inherits the phones
  (`lib.rs:425`). They are sent no snapshot, and what went into the dead trunk stays
  missing, where `SYSTEM_DESIGN.md:95` promises it in the next snapshot.
* `RelayTrunk!RepliesOwn`, with 2 phones: every phone is given every reply
  (`lib.rs:522`) and all number their commands alike, so a phone takes another's
  reply for its own; `SYSTEM_DESIGN.md:133` says replies go to their client.
* `Pairing!ShownCodeAdmitted`: the relay hears of a code when a trunk connects
  (`connection.rs:592`), so a code shown later is turned away until the next trunk,
  where `ARCHITECTURE.md:93` has the phone paired.
* `Pairing!PairedIsAlwaysAdmitted`, `PairedIsAdmitted` without its exception for the relay.
* `TerminalInterface!FinishedOnce`: `detect_state` never returns the completed state
  that `update` compares with (`state_machine.rs:512`, `535`), so each tick after a
  finished turn reports it again, where the comment at 510 says that only a
  transition does.
* `ClientConnection!SnapshotFirst`: a connection has its sink before it writes the
  welcome (`connection.rs:343`) and asks for the snapshot after it (391), so an update
  made in between comes first, where `COMMUNICATION.md:46` says the snapshot follows the
  welcome immediately.
* `ClientConnection!SlowIsClosed`, under `FairSpec`: the core drops the sink of a client
  whose channel is full and notifies its task, which looks at the notification only
  between two writes (`connection.rs:406`). A client that does not read keeps it in a
  write for ever, where `COMMUNICATION.md:116` says it is closed with 4003.
* `ClientConnection!ShownIsThere`: a connection is shown as connected before it writes
  the welcome (`connection.rs:329`); if the write fails it returns without taking that
  back (377), so the status shows a client that is gone, where `status.rs:181` takes the
  list for the phones that are connected.
* `AcpAdapter!DecisionAnswersItsRequest`: the adapter keeps one pending request; a
  decision on an earlier permission that is still open is given to the latest.

Read in the code and covered by no run:

* Core: a decision on a request that is superseded, or whose task has failed, is accepted
  and answered ok (`queue.rs:164`); a
  dismissed request that waits for a decision is in no snapshot (`queue.rs:49`); the
  phone calls the second round of a task finished (`agentdesk_state.dart:183`); a
  prompt is answered ok and can be lost (`core_task.rs:603`, `main.rs:520`); one typed
  while a chat reply is awaited answers it (`adapter.rs:881`); a
  decision for a task the adapter does not know is reported by nobody (`main.rs:466`);
  expiring a request emits no event (`adapter.rs:259`).
* Screen: prose that begins with "Result" is taken for output of a tool; a question
  whose options begin with "Yes," and "No," is read as a confirmation of a command; a
  half-painted question can be read as a shorter one; `Cursor Down` adds in 16 bits
  (`screen.rs:386`); a second `?1049h`, or `ESC 7` on the alternate screen, overwrites
  the saved cursor; a window made shorter loses its bottom rows.
* Logs: a pinned page says that lines were evicted while the ring still holds them
  (`log_store.rs:391`).
* ACP: an answer whose write fails is not reported (`acp.rs:980`).
* Pairing: phones restored from a backup share the id `flutter-client-1`; the frames of
  a trunk reach every phone, so one that is pairing takes another's answer; saving
  errors are ignored; a registry that a menu changed is overwritten by the daemon's
  next save; `RevokeDevice` is never sent.
* Terminal interface: a prompt of a phone, or a launched agent, is typed into a live
  dialog and answers it; a prompt injected over an old answer is reported completed
  with that answer (`state_machine.rs:556`); attached to a running daemon it types
  decisions into its own shell; a full sink drops it for good (`core_task.rs:432`);
  the selection is kept when another request comes on top (`state.rs:803`); two equal
  dialogs without a frame between them are announced once.

## Proofs

For all tasks, clients, kinds, durations, capacities and bounds, with the assumptions
`TasksAssumption`, `ExpectedAssumption`, `NoEventAssumption` and `CoreAssumption`:

* `TypeCorrect`, `TrackerSound`, `WorkingShown`, `LevelsCarried` (`CoreTask_proofs`):
  `Spec => []TypeOK`, `[]TrackerConsistent`, `[]WorkingShownWhileOpen`,
  `[]EscalationCarried`;
* `ScoresSound` (`CoreTask_proofs`): `Spec => []NeverUnderrated`;
* `AnsweredOnce` (`CoreTask_proofs`): `Spec => RequestAnsweredOnce`, the
  refinement of `RequestLifecycle`;
* `ForgottenByReopen` (`CoreTask_proofs`): `Spec => OutlivesTaskByReopenOnly`;
* `PushesTold` (`CoreTask_proofs`): `Spec => PushesTellAll`.

With the assumptions of the modules they are about, the constants that bound a model
included (any value of a bound is one):

* `LogStore_proofs`: `RingsRecent` (a ring holds the most recent lines, as many as fit,
  `RingConsistent`), `PagesAlwaysHonest` (`PagesHonest`), `WindowsKept`
  (`WindowsOnlyGrow`); of the log screen, `ScreenAlwaysJoined` (`ScreenJoined`) and
  `EarlierAlwaysGetsOn` (`EarlierGetsOn`);
* `Pairing_proofs`: `OneTokenPerCode` (`CodeUsedOnce`), `PairedLetIn` (`PairedIsAdmitted`);
* `AcpAdapter_proofs`: `EveryAskIsShown` (`AsksShown`), `EachAskAnsweredOnce`
  (`AnsweredOnce`), `DecisionsMeanThemselves` (`DecisionMeansItself`, if no option is named
  against the kind it declares);
* `Daemon_proofs`: `OneCarrier` (`PendingHasOneCarrier`), `TypedOnce` (`DecisionTypedOnce`),
  `OwnDialogOfAProcess` (of `AnswersItsOwnDialog`, what holds for any number of
  processes), and `AskedAnswerable` (`AskedIsAnswerable`);
* `ClientConnection_proofs`: `NothingIsMissed` (`NothingMissed`);
* `AntigravityAdapter_proofs`: `NoNumberLost` (`EveryNumberIsAnEvent`) and
  `UnannouncedThreeWays` (`SilentOnlyThreeWays`);
* `TerminalInterface_proofs`: `OwnDecisionsOnce` (`OwnDecisionOnce`),
  `AnnouncedOncePerPrompt` (`AnnouncedOnce`), `ViewFollows` (`ViewFollowsQueue`) and
  `ShownStaysAsked` (`DialogStaysAsked`).

*The core's invariant.* That a working entry is current
exactly while the tracker holds it survives a step only if what the tracker holds
are events of the task, or closing the task would supersede somebody else's; and
only if a working entry has no resolution, or `supersede` would spare it. That a
level is carried survives a tick only if no two tasks hold the same event. The
inductive invariant `IInv` joins `TypeOK`, `TrackerConsistent`,
`WorkingShownWhileOpen`, `RequestsResolvable` (exactly the requests have a
resolution) and `EscalationCarried`; `Invariance` is `Spec => []IInv`. The actions
fall into three kinds. Those that add an event are the only ones that change what
the tracker holds, and get a lemma for each kind of event. The tick changes scores
and levels (`EscalationTargets`: each level goes to the latest working event of its own
task). Commands and outcomes change attention, resolution and scores. The last two
kinds leave tiers and supersession alone: the predicate `KeepsFrame` on two queues
says so, one lemma per queue operator establishes it, and `QuietStep` uses it.

*Scores.* `NeverUnderrated` is inductive with `IInv`. Age and an acknowledgement can
only lower a score (`ScoreFalls`, over integer arithmetic with the rounding of the
code), so an entry that is left alone keeps at least its due; a reopened or escalated
entry is rescored in the same step; a dismissed, decided or superseded one is no
longer live.

*The refinement.* Every step of the core has one of a few effects on resolutions and
commands (`Effect`): none, a new entry, a prompt, a command taken, or one resolution
changed in one of four ways. `StepChanges` says so of every action, `EffectRefines`
turns each effect into a step of the lifecycle or a stutter. Without an adapter a
resolution is never pending (`NothingPending`), which is what makes the unattended
path settle an undecided request; this is inductive beside `IInv`.

`ForgottenByReopen` splits the same way: an event that makes the tracker drop a request
also supersedes it, unless its answer is in delivery (`ArrivalForgets`), and of the
effects only an outcome that says undelivered opens a request again (`EffectReopens`).

*What clients are told.* `PushesTellAll` folds `ApplyPush` over the messages of a command.
The fold is unrolled into a run over their indices (`FoldSteps`), by induction on sets of
numbers, which needs no operator as a parameter (`ByInduction`, from the well-foundedness
of the numbers). `Leads(q, w, r)` says that the messages `w` lead a mirror from `q` to
`r`; it is put together message by message (`ToldThen`), and the lists of updates
(`ScoreUpdates`, the updates of superseded entries) rewrite the entries listed in whatever
order they are listed. Each handler then leads from its queue to the next one. For the
watchdog this needs an invariant beside `IInv`, `WorkingRated`: the loop sends an update
for an escalated entry only where its score changed (`core_task.rs`), and a level that
changed without the score would never be told. The score of a working entry tells its
level, because the levels are further apart than rounding and age can bridge
(`MarksApart`).

*Logs.* Rings and windows are spans of consecutively numbered lines; what a page cuts
out of a span is one. Windows only grow because appending keeps a prefix. What the
phone shows ends where its first page ended, and a request for earlier lines ends right
before what is shown. A log only grows at its end, so a page that comes whole has all the
lines asked for, and one that is evicted has the last of them (`Fits`), whatever the agent
wrote in between.

*Pairing.* A code is spent from the moment a handler claims it. The memory never
takes a spent code for unused, and the file, when it holds it, says used (which is
what a restart relies on); a handler that has claimed a code is alone with it. That a
phone is let in is about the order of what is on a trunk (`Ordered`): the list of
devices comes first or not at all (`ListComesFirst`), the relay is told of a token right
before the phone is (`ToldBeforeAnswered`), tokens grow along a trunk (`TokensGrow`) and
from the earlier trunks to the current one (`OldIsOlder`, `HeldIsOlder`). So nothing
that is still on the way of the current trunk can take back what a phone has, or may
take next from any trunk (`Near`, `RelayKnows`): a later frame has a later token, or is a
list that has the token too (`ListKnows`). What an earlier trunk still holds can take it
back; the relay applies it, the device is `stale` from then on, and until the current
trunk speaks of it again nothing is claimed. A device whose entry a menu changed or a
torn save lost is excepted, as in the property. TLC checked all parts on the instance of
the run before they were proved.

*ACP.* The agent numbers its permissions in turn and the numbers rise along the way a
request takes, through channel and poll to the owner; so what is read next was not read
before, and what is pending is neither answered nor still to be read (`PendingIsOpen`).
The hypothesis of `DecisionsMeanThemselves`, `OffersAgree`, says that no option that
declares itself allowing is worded as a rejection, nor the other way round; without it
the property is false, because the code looks at the words and the kind alike
(`acp.rs:894`). The offers of the run satisfy it.

*Adapter.* A poll is a chain of stages, each a function on the fields (`Stages`). Every
stage leaves the events alone or appends one with the next number (`Follows`), so the
numbers are those of the buffer and on from there; the other calls add at most one event
to the buffer (`Quiets`). For the dialogs the invariant is `Recalled`, on three fields
that the code keeps apart: the pending request, the answer that is taking effect, and the
state the next poll compares with. A request is pending beside such an answer only
after a write-in was typed past it, and with neither of the two the state compared with
is the one on the screen. Without it nothing is known of a poll that finds the screen it
compares with. TLC checked `Recalled` with 4 screens and 7 numbers before it was proved,
and the search for it refuted an earlier form of the property, which lacked the third way.
`NoneAssumption` says that the value for "none" is no record.

*Daemon.* The theorems use the core's `IInv` and `Effect` as they are: a step of the
daemon that runs the core is a step of `CoreTask`. `Good` counts, for each request, the
places its answer can be in: a command in the channel or held by the loop, an outcome
still to be sent or in `upstream`. A pending request has exactly one, any other none;
and each place tells what was typed (`AllTold`): nothing yet for a command, the decision
once for an outcome that says delivered. The loop makes one outcome of one command
without doing anything else in between, which is what keeps the count. `Own` says that
the numbers of a process only grow and that an event with the number of the pending
request asks for the same dialog (`KnownTo`), so the comparison of numbers in the
adapter is a comparison of dialogs. It holds for any number of processes, but speaks of
those that asked: each process counts its events anew (`main.rs:506`), so
`AnswersItsOwnDialog`, which has no such exception, is left to the run with one process and
is false with two (above). `AskedAnswerable` needs a third invariant, `Ask`: what a poll tells ends
with the announcement of the pending request or with progress only (`Stage`), between
polls nothing that outdates it is told (`Rests`), and so along loop and channel up to the
queue the announcement is either on its way or in the queue with nothing behind it that
would outdate it (`Heard`). That the entry is not decided either follows because an
answer that is typed ends the request, so an answer of the running process is to an
earlier number (`AnswersOver`). TLC checked `Ask` with two processes (928 047 states)
before it was proved.

*Connections.* `NothingMissed` is not inductive: between the messages of one step of the
core a client may lack a change that is still to be sent. `Kept` says what the core has
still to send (`Telling`), that a client has a sink once at most and was sent nothing
before (`Fresh`, `ConnectOnce`), and that what comes next follows on what it was sent
last (`UpToDate`). TLC checked `Kept` with two clients and channels of one place (two for
commands) before it was proved.

*Terminal interface.* A step of the interface that runs the core is a step of `CoreTask`
or leaves it alone, so `IInv`, `WorkingRated` and `Leads` are used as they are;
`CoreTells` adds what each handler sends: at most one decision, an event only as the last
message, and nothing that changes an entry which the sink would leave out (`Passes`).
`OInv` says that of the copies a decision may still cost there are as many as messages
that wait in the channel of the interface and in that of the adapter loop. `AnnouncedOnce`
alone is not inductive: when the machine enters the dialog on the screen, nothing says
that it was not announced before. `Budget` does: a dialog that was not shown yet cost
nothing, and while the machine is not in the dialog that the agent shows, one announcement
is in reserve; `Seen` says when the machine can have left it. For the view, `VInv` says
that it is a queue as it once was, which the messages in the channel lead to the present
queue (`Shows`), but for what the user took off. This is where the two ways of applying a
message have to agree: the interface keeps an entry superseded that once was
(`tui/state.rs`), a mirror does as it is told, and they are the same because in the core
nothing superseded is ever current again (`Grows`).

`DialogStaysAsked` speaks of a moment at which nothing is on its way, and follows from
what is true all along (`DInv`). The last report on its way to the core, or else the last
event, announces the dialog the machine is in (`LastTold`); that event is a request that
nothing superseded, since only a later event could (`Current`). A request in delivery is
in hand: its decision waits in one of the two channels, or what became of it among the
letters to the core (`AllInHand`). Where a decision on the dialog on the screen counts as
typed, or is about to, the key that closes the dialog is still to be read
(`ClosingTyped`): a decision that meets no dialog is reported failed and reopens its
request, and a dialog that comes later was never announced before (`Budget`). So once the
channels are empty and the keys read, the request is neither in delivery nor decided. TLC
checked the parts of `DInv` with two dialogs and five events before they were proved.

Left to TLC: liveness (`Resurfaces`, `EndNoticed`, `EventuallyReported`, `PhoneReturns`,
`LeftIsLetGo`); the parsers of rows and bytes in `Dialogs`, `Transcript` and `Screen`,
whose properties are about what recursion computes; and the composition `RelayTrunk`,
where trunks, relay and phones meet the core and the mirrors.

## What the properties leave open

Besides the exceptions above: `RequestAnsweredOnce` does not ask that a client who decides on
a superseded request is refused; `AsksShown` and `AnsweredOnce` do not say which permission a
decision answers; `AnswersTakeEffect` has no write-in row in a question with boxes;
`PrintedTextKept` speaks of plain text on the main screen, so of a change of size and of
the alternate screen it asks nothing; `ReportTellsThisTurn` lets a report after a quote be
any end of the turn; `AskedIsAnswerable` lets a prompt be taken for a reply;
`OneTrunkShowsQueue` is checked with one phone; `EarlierGetsOn` speaks of pages that change
what is shown; frames of the agent arrive whole in `TerminalInterface`, so a half-painted
dialog is not among its screens.

## Not modelled

Titles and wording, regular expressions, and the predicates that tell what kind of row a
line of text is; drawing in the terminal interface and on the phone; attachment of the
interface to a running daemon, several sessions in one interface, write-in answers there;
the shutdown of the server and the file its status is written to; metrics, the simulator
and the benchmark, TLS, tunnels, discovery, reading a configuration, logging, packaging.
They are I/O without protocol state, or layout. The two raw pipeline modes forward their
input unchanged and exist for measurements.
