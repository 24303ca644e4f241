------------------------- MODULE AntigravityAdapter -------------------------
(***************************************************************************)
(* The adapter that drives the Antigravity agent through a pseudo-terminal.*)
(* It sees the agent only as a screen: bytes arrive, a state is detected,  *)
(* and a change of state becomes an event.  It holds at most one request,  *)
(* the dialog it last announced, and types an answer into the terminal     *)
(* only while that dialog is still on the screen.                          *)
(*                                                                         *)
(* A screen is abstracted to what the detector returns: the kind of state, *)
(* what identifies it, and the live cursor.  The adapter's fields are one  *)
(* record, and each stage of its poll is an operator on that record; `out` *)
(* and `typed` are what a call emits and what it types.                    *)
(*                                                                         *)
(* Time is seen only through two comparisons, so a deadline is a flag that *)
(* the environment raises: the grace period of a consumed request is over, *)
(* a pending write-in is late.                                             *)
(***************************************************************************)
EXTENDS Integers, Sequences

CONSTANTS
  Menus,        \* approval dialogs: commands, file edits, workspace trust
  Questions,    \* questions with choices
  WriteIns,     \* those among them with a row to write an answer in
  Replies,      \* agent messages that end with a question, in plain chat
  Works,        \* what a spinner line says
  Responses,    \* kinds of answers the clients give in this model
  None,         \* no value
  MaxSeq,       \* bound: events the adapter emits
  MaxShows      \* bound: screens the agent shows

ASSUME AdapterAssumption ==
  /\ WriteIns \subseteq Questions
  /\ Responses \subseteq {"Approve", "Deny", "Option", "OtherOption", "Text"}
  /\ MaxSeq \in Nat /\ MaxShows \in Nat

VARIABLES
  adapter,      \* the adapter's fields
  terminal,     \* what the agent shows
  unread,       \* are there bytes the adapter has not read?
  alive,        \* does the agent's process run?
  shows         \* how many screens it has shown (bounds the model)

vars == <<adapter, terminal, unread, alive, shows>>

-----------------------------------------------------------------------------
(* Screens.                                                                *)

(* Where the cursor of a dialog is: on an answer, or on the write-in row.  *)
Cursors == {"answer", "write_in"}

Dialogs ==
  [kind : {"Menu"}, id : Menus, cursor : {"answer"}]
    \cup [kind : {"Question"}, id : Questions \ WriteIns, cursor : {"answer"}]
    \cup [kind : {"Question"}, id : WriteIns, cursor : Cursors]
    \cup [kind : {"Entry"}, id : Questions, cursor : {"answer"}]
    \cup [kind : {"Reply"}, id : Replies, cursor : {"answer"}]

(* No value is not a request.                                              *)
ASSUME NoneAssumption ==
  /\ None \notin [generation : Nat, seq : Nat, screen : Dialogs]
  /\ None \notin [screen : Dialogs, over : BOOLEAN, opens : BOOLEAN]

Working(details) == [kind |-> "Working", id |-> details, cursor |-> "answer"]

Plain(kind) == [kind |-> kind, id |-> None, cursor |-> "answer"]

Screens ==
  Dialogs \cup {Working(w) : w \in Works}
    \cup {Plain(k) : k \in {"Initializing", "IdlePrompt", "Completed",
                            "FatalError"}}

IsBlocking(s) == s.kind \in {"Menu", "Question", "Entry", "Reply"}

AcceptsChatInput(s) == s.kind \in {"IdlePrompt", "Reply"}

(* The same request, wherever its cursor is now.                           *)
SameRequest(a, b) == IsBlocking(a) /\ a.kind = b.kind /\ a.id = b.id

-----------------------------------------------------------------------------
(* Answers: what the keystrokes for one amount to on a live screen.        *)

Encoding(s, response) ==
  CASE s.kind = "Menu" ->
         IF response \in {"Approve", "Deny", "Option"} THEN "submit"
         ELSE "invalid"
    [] s.kind = "Question" ->
         CASE response = "Approve" ->
                IF s.cursor = "write_in" THEN "invalid" ELSE "submit"
           [] response \in {"Deny", "Option"} -> "submit"
           [] response = "Text" ->
                IF s.id \in WriteIns THEN "open_write_in" ELSE "invalid"
           [] OTHER -> "invalid"
    [] s.kind = "Entry" ->
         IF response \in {"Approve", "Deny", "Text"} THEN "submit"
         ELSE "invalid"
    [] s.kind = "Reply" ->
         IF response \in {"Text", "Option", "OtherOption"} THEN "submit"
         ELSE "invalid"
    [] OTHER -> "invalid"

-----------------------------------------------------------------------------
(* The adapter's fields.                                                   *)

Lifecycles == {"Uninitialized", "Starting", "Running", "Working", "Blocked",
               "Exited"}

(* What the lifecycle says of its work when no spinner line says it.       *)
OwnWorks == {"prompt", "answered", "opening_write_in", "write_in"}

NewAdapter(prompted) ==
  [life     |-> "Uninitialized", work |-> None,
   seq      |-> 0,               generation |-> 0,
   screen   |-> Plain("Initializing"),
   current  |-> Plain("Initializing"),
   pending  |-> None,            outcome |-> None,
   consumed |-> None,            writeIn |-> None,
   prompted |-> prompted,        buffer |-> <<>>,
   out      |-> <<>>,            typed |-> None]

Emit(a, kind) ==
  [a EXCEPT !.seq = @ + 1,
            !.out = Append(@, [kind |-> kind, seq |-> a.seq + 1])]

Busy(a, work) == [a EXCEPT !.life = "Working", !.work = work]

At(a, life) == [a EXCEPT !.life = life, !.work = None]

ExpirePending(a) ==
  IF a.pending = None THEN a
  ELSE [a EXCEPT !.pending = None, !.outcome = "Expired"]

RequestKind(s) ==
  IF s.kind = "Menu" THEN "approval_required" ELSE "input_required"

InGrace_Endless(a, s) ==
  a.consumed # None /\ SameRequest(a.consumed.screen, s)

InGrace(a, s) ==
  /\ a.consumed # None
  /\ SameRequest(a.consumed.screen, s)
  /\ ~a.consumed.over

OpenRequest_AnyPending(a, s) ==
  IF a.pending # None THEN At(a, "Blocked")
  ELSE IF InGrace(a, s) THEN a
  ELSE LET b == Emit(At([a EXCEPT !.consumed = None], "Blocked"),
                     RequestKind(s))
       IN  [b EXCEPT !.generation = @ + 1,
                     !.pending = [generation |-> b.generation + 1,
                                  seq |-> b.seq, screen |-> s]]

(* A dialog is on the screen.                                              *)
OpenRequest(a, s) ==
  IF a.pending # None /\ SameRequest(a.pending.screen, s)
  THEN At([a EXCEPT !.pending.screen = s], "Blocked")
  ELSE IF InGrace(a, s) THEN a
  ELSE LET b == Emit(At(ExpirePending([a EXCEPT !.consumed = None]),
                        "Blocked"),
                     RequestKind(s))
       IN  [b EXCEPT !.generation = @ + 1,
                     !.pending = [generation |-> b.generation + 1,
                                  seq |-> b.seq, screen |-> s]]

(* The text of a write-in is typed once its entry is on the screen.        *)
EntryReady(a, s) ==
  /\ a.writeIn # None
  /\ ~a.writeIn.late
  /\ s.kind = "Entry" /\ s.id = a.writeIn.question

CompleteWriteIn(a, s, sent) ==
  LET b == [a EXCEPT !.writeIn = None] IN
  IF ~sent THEN At(b, "Exited")
  ELSE Busy([b EXCEPT !.consumed = [screen |-> s, over |-> FALSE,
                                    opens |-> FALSE],
                      !.typed = [what |-> "text", seq |-> 0, into |-> s]],
            "write_in")

(* A late write-in, or one whose question is no longer asked, is dropped.  *)
DropWriteIn(a, s) ==
  IF a.writeIn # None
       /\ (a.writeIn.late \/ (s.kind = "Entry" /\ s.id # a.writeIn.question))
  THEN [a EXCEPT !.writeIn = None] ELSE a

(* evidence: does the screen show work that was done?                      *)
Finish(a, evidence) ==
  LET b == At([a EXCEPT !.prompted = FALSE], "Running")
  IN  IF evidence THEN Emit(b, "task_completed") ELSE b

HandleTransition(a, s, evidence, sent) ==
  IF IsBlocking(s)
  THEN IF EntryReady(a, s) THEN CompleteWriteIn(a, s, sent)
       ELSE OpenRequest(DropWriteIn(a, s), s)
  ELSE LET b == ExpirePending(a)
           c == [b EXCEPT !.writeIn = None] IN
    CASE s.kind = "Working" ->
           IF b.life = "Working" /\ b.work = s.id THEN b
           ELSE Emit(Busy(b, s.id), "progress")
      [] s.kind = "Completed" -> Finish(c, evidence)
      [] s.kind = "FatalError" ->
           IF b.life = "Exited" THEN c
           ELSE Emit(At(c, "Exited"), "command_failed")
      [] s.kind = "IdlePrompt" ->
           IF b.life = "Working" \/ b.prompted THEN Finish(c, evidence)
           ELSE At(c, "Running")
      [] OTHER -> b

-----------------------------------------------------------------------------
(* A call types something if it would, were the write to succeed.  Writing *)
(* to the terminal fails only if the process is gone, or dies now.         *)
Writes(typed, sent) ==
  /\ sent => alive
  /\ typed = None => sent = alive
  /\ alive' = (alive /\ sent)

(* The stages of a poll.                                                   *)

Begin_KeepsBuffer(a) ==
  LET b == [a EXCEPT !.out = @ \o a.buffer, !.typed = None]
  IN  IF b.life = "Uninitialized" THEN Emit(At(b, "Starting"), "started")
      ELSE b

Begin(a) ==
  LET b == [a EXCEPT !.out = @ \o a.buffer, !.buffer = <<>>, !.typed = None]
  IN  IF b.life = "Uninitialized" THEN Emit(At(b, "Starting"), "started")
      ELSE b

Look(a, evidence, sent) ==
  IF ~unread THEN a
  ELSE LET b == [a EXCEPT !.screen = terminal]
       IN  IF terminal = a.current THEN b
           ELSE HandleTransition([b EXCEPT !.current = terminal], terminal,
                                 evidence, sent)

ForgetLateWriteIn(a) ==
  IF a.writeIn # None /\ a.writeIn.late THEN [a EXCEPT !.writeIn = None]
  ELSE a

(* A dialog that outlived its answer is a request again.                   *)
Resurface(a) ==
  IF /\ a.pending = None /\ a.writeIn = None
     /\ IsBlocking(a.current)
     /\ a.consumed # None /\ a.consumed.over
  THEN OpenRequest(a, a.current) ELSE a

NoticeDeath(a) ==
  IF alive \/ a.life = "Exited" THEN a
  ELSE Emit([ExpirePending(At(a, "Exited")) EXCEPT !.writeIn = None],
            "adapter_error")

(* The one outcome of a poll, stage by stage.                              *)
PollOutcomes(a, evidence, sent) ==
  LET begun  == {Begin([a EXCEPT !.out = <<>>])}
      looked == {Look(b, evidence, sent) : b \in begun}
      asked  == {Resurface(ForgetLateWriteIn(b)) : b \in looked}
  IN  {NoticeDeath(b) : b \in asked}

Poll ==
  \E evidence, sent \in BOOLEAN :
  \E best   \in PollOutcomes(adapter, evidence, TRUE),
     polled \in PollOutcomes(adapter, evidence, sent) :
    /\ Writes(best.typed, sent)
    /\ adapter' = polled
    /\ unread' = FALSE
    /\ UNCHANGED <<terminal, shows>>

-----------------------------------------------------------------------------
(* Answering the request announced with agent sequence number seq.         *)

Quiet(a) == [a EXCEPT !.out = <<>>, !.typed = None]

(* The live screen, after reading what the agent has shown since.          *)
Live(a) == IF unread THEN terminal ELSE a.screen

RespondError_AnySeq(a, seq, response, sent) == \* variant: whatever it is for
  CASE ~alive -> "disconnected"
    [] alive /\ a.pending = None -> "not_blocked"
    [] alive /\ a.pending # None ->
         IF ~SameRequest(a.pending.screen, Live(a)) THEN "state_mismatch"
         ELSE IF Encoding(Live(a), response) = "invalid"
              THEN "invalid_response"
         ELSE IF ~sent THEN "disconnected"
         ELSE "ok"

RespondError(a, seq, response, sent) ==
  CASE ~alive -> "disconnected"
    [] alive /\ a.pending = None ->
         IF a.outcome = "Consumed" THEN "already_consumed"
         ELSE IF a.outcome = "Expired" THEN "state_mismatch"
         ELSE "not_blocked"
    [] alive /\ a.pending # None ->
         IF a.pending.seq # seq THEN "wrong_request"
         ELSE IF ~SameRequest(a.pending.screen, Live(a)) THEN "state_mismatch"
         ELSE IF Encoding(Live(a), response) = "invalid"
              THEN "invalid_response"
         ELSE IF ~sent THEN "disconnected"
         ELSE "ok"

(* Has the call got as far as reading the screen?                          *)
ReadsScreen(a, seq) == alive /\ a.pending # None /\ a.pending.seq = seq

Answered(a, response) ==
  LET live == Live(a)
      opens == Encoding(live, response) = "open_write_in"
      b == [a EXCEPT
              !.pending = None, !.outcome = "Consumed",
              !.consumed = [screen |-> live, over |-> FALSE, opens |-> opens],
              !.typed = [what |-> "answer", seq |-> a.pending.seq,
                         into |-> live],
              !.writeIn = IF opens
                          THEN [question |-> live.id, late |-> FALSE] ELSE @]
      c == Busy(b, IF opens THEN "opening_write_in" ELSE "answered")
  IN  [c EXCEPT !.seq = @ + 1,
                !.buffer = Append(@, [kind |-> "progress",
                                      seq |-> c.seq + 1])]

Responded(a, seq, response, sent) ==
  LET b == IF ReadsScreen(a, seq) THEN [Quiet(a) EXCEPT !.screen = Live(a)]
           ELSE Quiet(a)
      error == RespondError(a, seq, response, sent)
  IN
  CASE error = "ok" -> Answered(b, response)
    [] error = "disconnected" ->
         IF ~alive THEN ExpirePending(b) ELSE ExpirePending(At(b, "Exited"))
    [] error = "state_mismatch" /\ a.pending # None ->
         ExpirePending([b EXCEPT !.current = Live(a)])
    [] OTHER -> b

RespondWithResponse(seq, response) ==
  \E sent \in BOOLEAN :
    /\ Writes(Responded(adapter, seq, response, TRUE).typed, sent)
    /\ adapter' = Responded(adapter, seq, response, sent)
    /\ unread' = (unread /\ ~ReadsScreen(adapter, seq))
    /\ UNCHANGED <<terminal, shows>>

(* A prompt is typed into the chat; the caller checks the screen first.    *)
PromptStarted(a) ==
  LET b == Busy([Quiet(a) EXCEPT
                   !.prompted = TRUE, !.current = Working("prompt"),
                   !.typed = [what |-> "prompt", seq |-> 0,
                              into |-> a.screen]], "prompt")
  IN  [b EXCEPT !.seq = @ + 1,
                !.buffer = Append(@, [kind |-> "progress",
                                      seq |-> b.seq + 1])]

StartPrompt ==
  \E sent \in BOOLEAN :
    /\ Writes(PromptStarted(adapter).typed, sent)
    /\ adapter' = IF sent THEN PromptStarted(adapter) ELSE Quiet(adapter)
    /\ UNCHANGED <<terminal, unread, shows>>

IsFinished(a) == a.life = "Exited"

-----------------------------------------------------------------------------
(* The agent and the clock.                                                *)

(* The agent may show anything at any time: its dialogs can be answered or *)
(* cancelled at the keyboard of the laptop, or withdrawn.                  *)
AgentShows ==
  /\ alive /\ shows < MaxShows
  /\ \E s \in Screens : terminal' = s
  /\ unread' = TRUE
  /\ shows' = shows + 1
  /\ UNCHANGED <<adapter, alive>>

AgentDies ==
  /\ alive
  /\ alive' = FALSE
  /\ UNCHANGED <<adapter, terminal, unread, shows>>

GraceEnds ==
  /\ adapter.consumed # None /\ ~adapter.consumed.over
  /\ adapter' = [Quiet(adapter) EXCEPT !.consumed.over = TRUE]
  /\ UNCHANGED <<terminal, unread, alive, shows>>

(* A write-in is given ten seconds, the grace of its answer five.          *)
WriteInLate ==
  /\ adapter.writeIn # None /\ ~adapter.writeIn.late
  /\ ~(adapter.consumed # None /\ adapter.consumed.opens
         /\ ~adapter.consumed.over)
  /\ adapter' = [Quiet(adapter) EXCEPT !.writeIn.late = TRUE]
  /\ UNCHANGED <<terminal, unread, alive, shows>>

-----------------------------------------------------------------------------
Init ==
  /\ adapter \in {NewAdapter(FALSE), NewAdapter(TRUE)}
  /\ terminal = Plain("Initializing")
  /\ unread = FALSE
  /\ alive = TRUE
  /\ shows = 0

Room == adapter.seq < MaxSeq

Respond ==
  /\ Room
  /\ \E seq \in 1..MaxSeq, response \in Responses :
       RespondWithResponse(seq, response)

Prompt ==
  /\ Room
  /\ AcceptsChatInput(adapter.screen)
  /\ StartPrompt

Next ==
  \/ Room /\ Poll
  \/ Respond
  \/ Prompt
  \/ AgentShows
  \/ AgentDies
  \/ GraceEnds
  \/ WriteInLate

Spec == Init /\ [][Next]_vars

(* The daemon polls every fifty milliseconds and time passes; the agent    *)
(* and the clients owe nothing.                                            *)
Fairness ==
  /\ WF_vars(Room /\ Poll)
  /\ WF_vars(GraceEnds)
  /\ WF_vars(WriteInLate)

FairSpec == Spec /\ Fairness

-----------------------------------------------------------------------------
Numbered == [kind : {"started", "approval_required", "input_required",
                     "progress", "task_completed", "command_failed",
                     "adapter_error"},
             seq : 1..MaxSeq + 3]

(* TypeOK: the adapter's fields hold values of their types; a pending      *)
(* request carries the number of the event that announced it.              *)
TypeOK ==
  /\ adapter.life \in Lifecycles
  /\ adapter.work \in Works \cup OwnWorks \cup {None}
  /\ adapter.work # None <=> adapter.life = "Working"
  /\ adapter.seq \in 0..MaxSeq + 3 /\ adapter.generation \in 0..adapter.seq
  /\ adapter.screen \in Screens
  /\ adapter.current \in Screens \cup {Working("prompt")}
  /\ adapter.pending \in
       {None} \cup [generation : 1..adapter.generation,
                    seq : 1..adapter.seq, screen : Dialogs]
  /\ adapter.outcome \in {None, "Consumed", "Expired"}
  /\ adapter.consumed \in
       {None} \cup [screen : Dialogs, over : BOOLEAN, opens : BOOLEAN]
  /\ adapter.writeIn \in {None} \cup [question : WriteIns, late : BOOLEAN]
  /\ adapter.prompted \in BOOLEAN
  /\ adapter.buffer \in Seq(Numbered) /\ adapter.out \in Seq(Numbered)
  /\ terminal \in Screens
  /\ unread \in BOOLEAN /\ alive \in BOOLEAN /\ shows \in 0..MaxShows

(* EveryNumberIsAnEvent: an event gets its number when it is built and may *)
(* wait in the buffer for the next poll; no call loses one, emits one twice*)
(* or overtakes the buffer, so what the daemon receives is numbered        *)
(* without a gap.                                                          *)
Numbers(events) == [i \in DOMAIN events |-> events[i].seq]

UpFrom(first, n) == [i \in 1..n |-> first + i - 1]

EveryNumberIsAnEvent ==
  [][LET waiting == Len(adapter.buffer) IN
     /\ Numbers(adapter'.out \o adapter'.buffer)
          = UpFrom(adapter.seq - waiting + 1,
                   adapter'.seq - adapter.seq + waiting)
     /\ adapter'.out # <<>> => adapter'.buffer = <<>>]_adapter

(* Announced: while a dialog the adapter has read blocks the agent,        *)
(* the pending request is for that dialog, or nothing is pending because   *)
(* an answer is still taking effect, or the adapter has given up.          *)
Announced ==
  alive /\ IsBlocking(adapter.screen) /\ ~IsFinished(adapter)
    => IF adapter.pending # None
       THEN SameRequest(adapter.pending.screen, adapter.screen)
       ELSE adapter.consumed # None

(* SilentOnlyThreeWays: three steps leave a dialog unannounced, and no     *)
(* other.  An answer is refused because another dialog has taken the place *)
(* of the one it was meant for.  The entry a write-in was typed into is on *)
(* the screen although a request of another dialog, shown in between, is   *)
(* still pending: at once, or after that other dialog was shown again.  And*)
(* when the grace of an answer ends, the dialog asked about is the one the *)
(* last poll remembers, though the answer has read a later screen.         *)
RefusedForAnother ==
  /\ adapter.pending # None /\ adapter'.pending = None
  /\ ~SameRequest(adapter.pending.screen, adapter'.screen)
  /\ adapter'.outcome = "Expired" /\ adapter'.seq = adapter.seq

WrittenPastAnother ==
  /\ adapter.pending # None /\ adapter'.pending = adapter.pending
  /\ adapter'.consumed # None /\ adapter'.consumed.screen.kind = "Entry"
  /\ SameRequest(adapter'.consumed.screen, adapter'.screen)

AskedFromMemory ==
  /\ adapter.pending = None /\ adapter'.pending # None
  /\ adapter.consumed # None /\ adapter.consumed.over
  /\ adapter'.screen = adapter.screen
  /\ adapter'.pending.screen = adapter.current
  /\ ~SameRequest(adapter.current, adapter.screen)

SilentOnlyThreeWays ==
  [][Announced /\ ~Announced' =>
       RefusedForAnother \/ WrittenPastAnother \/ AskedFromMemory]_vars

(* Resurfaces: a dialog that stays on the screen after it was answered is  *)
(* a request again, once its grace period is over.  A prompt typed into it *)
(* makes the adapter forget the dialog: `current` is then what the prompt  *)
(* set.                                                                    *)
Resurfaces ==
  /\ adapter.consumed # None /\ adapter.pending = None
  /\ IsBlocking(adapter.current) /\ terminal = adapter.current
  ~> \/ adapter.pending # None
     \/ terminal # adapter.current
     \/ ~alive \/ ~Room

=============================================================================
