----------------------------- MODULE AcpAdapter -----------------------------
(***************************************************************************)
(* The adapter for agents that speak the Agent Client Protocol: JSON-RPC   *)
(* lines over the pipes of a child process.  The owner polls it for events *)
(* and hands it decisions; reader threads put what the agent writes into a *)
(* channel; the agent answers the three requests of the handshake, works,  *)
(* asks for permissions, several at a time if it likes, and may die between*)
(* any two steps.  What a line says is reduced to what the adapter tells   *)
(* apart; tool kinds and titles are left out.                              *)
(***************************************************************************)
EXTENDS Integers, Sequences, FiniteSets

CONSTANTS
  Offers,        \* lists of options that come with a permission request
  MaxAsks,       \* bound: permission requests of the agent
  MaxUpdates,    \* bound: other lines of the agent
  MaxFailures    \* bound: decisions that fail

(* An option: the kind it declares, and the words of its name and id that  *)
(* the adapter looks for.                                                  *)
Kinds == {"allow", "reject", "none"}
Words == {"allow", "reject"}

ASSUME AcpAssumption ==
  /\ \A offer \in Offers : offer \in Seq([kind : Kinds, words : SUBSET Words])
  /\ MaxAsks \in Nat /\ MaxUpdates \in Nat /\ MaxFailures \in Nat

VARIABLES
  adapter,    \* state, pending request, last number, events not yet given,
              \* and whether a poll is under way
  emitted,    \* the events the owner has been given
  channel,    \* what the reader threads have put in and poll has not read
  pipe,       \* is stdout open, and the flag that says the process is alive
  agent,      \* the process: alive, requests it owes, permissions, lines sent
  inbox,      \* lines on their way to the agent
  answers,    \* what was answered for which request, in order
  failures    \* decisions that failed

vars == <<adapter, emitted, channel, pipe, agent, inbox, answers, failures>>

-----------------------------------------------------------------------------
(* Lines, events and what the adapter makes of them.                       *)

Event(kind, seq, id) == [kind |-> kind, seq |-> seq, id |-> id]

Permission(id, offer) == [kind |-> "permission", id |-> id, offer |-> offer]
Update(kind) == [kind |-> kind]
Result(id) == [kind |-> "result", id |-> id]
NoSession == [kind |-> "no_session", id |-> 2]
Failure(id) == [kind |-> "error", id |-> id]
Eof == [kind |-> "eof"]

NoPending == [id |-> 0, offer |-> <<>>]

(* An event takes the next number; the poll returns it.                    *)
Emit(a, kind, id) ==
  [a EXCEPT !.seq = @ + 1, !.out = Append(@, Event(kind, a.seq + 1, id))]

Fail(a, kind) == [Emit(a, kind, 0) EXCEPT !.state = "Finished"]

(* The next request of the handshake.  `writable` says whether a write to  *)
(* the process succeeds.                                                   *)
Send(a, id, state, writable) ==
  IF writable THEN [a EXCEPT !.state = state, !.sent = Append(@, id)]
  ELSE Fail(a, "adapter_error")

(* A permission request takes the place of one that is pending.            *)
HandlePermission(a, line) ==
  [Emit(a, "approval_required", line.id)
     EXCEPT !.state = "Blocked",
            !.pending = [id |-> line.id, offer |-> line.offer]]

(* Of what the agent tells, only a tool at work is an event; the rest is   *)
(* text for the log.                                                       *)
HandleNotification(a, line) ==
  IF line.kind = "tool" THEN Emit(a, "progress", 0) ELSE a

(* An answer to the handshake leads on to its next request, and that to the*)
(* prompt ends the task.  A session without an identifier leads nowhere.   *)
HandleResponse(a, line, writable) ==
  CASE line.kind = "error" -> Fail(a, "command_failed")
    [] line.kind = "result" /\ line.id = 1 ->
         Send(a, 2, "CreatingSession", writable)
    [] line.kind = "result" /\ line.id = 2 ->
         Send(Emit(a, "started", 0), 3, "Prompting", writable)
    [] line.kind = "result" /\ line.id = 3 -> Fail(a, "task_completed")
    [] OTHER -> a

HandleEof(a) == IF a.state = "Finished" THEN a ELSE Fail(a, "adapter_error")

HandleLine(a, line, writable) ==
  CASE line.kind = "permission" -> HandlePermission(a, line)
    [] line.kind \in {"text", "tool"} -> HandleNotification(a, line)
    [] line.kind = "eof" -> HandleEof(a)
    [] OTHER -> HandleResponse(a, line, writable)

Handle_Merged(a, line, writable) ==   \* variant: one request event at a time
  IF line.kind = "permission" /\ a.state = "Blocked"
  THEN [a EXCEPT !.pending = [id |-> line.id, offer |-> line.offer]]
  ELSE HandleLine(a, line, writable)

Handle_EndIgnored(a, line, writable) ==   \* variant: not while it is blocked
  IF line.kind = "eof" /\ a.state = "Blocked" THEN a
  ELSE HandleLine(a, line, writable)

Handle(a, line, writable) == HandleLine(a, line, writable)

-----------------------------------------------------------------------------
(* The option a decision selects.                                          *)

Allows(option) == option.kind = "allow" \/ "allow" \in option.words
Rejects(option) == option.kind = "reject" \/ "reject" \in option.words

FirstSuch(offer, Test(_)) ==
  LET found == {i \in DOMAIN offer : Test(offer[i])}
  IN  IF found = {} THEN 0 ELSE CHOOSE i \in found : \A j \in found : i <= j

ProceedOnce == [kind |-> "allow", words |-> {"allow"}]
Cancelled == [kind |-> "reject", words |-> {"reject"}]

Approval(offer) ==
  LET i == FirstSuch(offer, Allows)
  IN  IF i > 0 THEN offer[i]
      ELSE IF offer # <<>> THEN offer[1] ELSE ProceedOnce

Denial_First(offer) ==    \* variant: falls back as an approval does
  LET i == FirstSuch(offer, Rejects)
  IN  IF i > 0 THEN offer[i]
      ELSE IF offer # <<>> THEN offer[1] ELSE Cancelled

Denial(offer) ==
  LET i == FirstSuch(offer, Rejects)
  IN  IF i > 0 THEN offer[i] ELSE Cancelled

Selected(decision, offer) ==
  IF decision = "Approve" THEN Approval(offer) ELSE Denial(offer)

-----------------------------------------------------------------------------
Init ==
  /\ adapter = [state |-> "Uninitialized", pending |-> NoPending, seq |-> 0,
                out |-> <<>>, sent |-> <<>>, polling |-> FALSE]
  /\ emitted = <<>>
  /\ channel = <<>>
  /\ pipe = [open |-> TRUE, alive |-> TRUE]
  /\ agent = [alive |-> TRUE, owes |-> {}, turn |-> FALSE, asked |-> {},
              updates |-> 0]
  /\ inbox = <<>>
  /\ answers = <<>>
  /\ failures = 0

(* A write can fail once the reader has seen the end of the output or the  *)
(* process is gone; a process that dies just then makes it fail as well.   *)
Writable(ok) == ok => pipe.alive /\ agent.alive

(* The adapter has come to `a`; what it wrote is on its way to the agent.  *)
Becomes(a) ==
  /\ adapter' = [a EXCEPT !.sent = <<>>]
  /\ inbox' = inbox \o [i \in DOMAIN a.sent |-> Result(a.sent[i])]

(* A poll that returns gives its owner the events, and those of a decision *)
(* that failed before it.                                                  *)
Returns(a) ==
  /\ Becomes([a EXCEPT !.out = <<>>, !.polling = FALSE])
  /\ emitted' = emitted \o a.out

(* The very first poll starts the handshake, and reads nothing if that     *)
(* fails.                                                                  *)
PollStarts ==
  \E ok \in BOOLEAN :
    LET first   == adapter.state = "Uninitialized"
        greeted == IF first THEN Send(adapter, 1, "Initializing", ok)
                   ELSE adapter
    IN
    /\ ~adapter.polling
    /\ Writable(ok)
    /\ IF first /\ ~ok THEN Returns(greeted)
       ELSE Becomes([greeted EXCEPT !.polling = TRUE]) /\ UNCHANGED emitted
    /\ UNCHANGED <<channel, pipe, agent, answers, failures>>

(* It reads one line after the other, while the readers go on adding some, *)
PollReads ==
  \E ok \in BOOLEAN :
    /\ adapter.polling /\ channel # <<>>
    /\ Writable(ok)
    /\ Becomes(Handle(adapter, Head(channel), ok))
    /\ channel' = Tail(channel)
    /\ UNCHANGED <<emitted, pipe, agent, answers, failures>>

(* until there is none.                                                    *)
PollEnds ==
  /\ adapter.polling /\ channel = <<>>
  /\ Returns(adapter)
  /\ UNCHANGED <<channel, pipe, agent, answers, failures>>

Poll == PollStarts \/ PollReads \/ PollEnds

-----------------------------------------------------------------------------
(* A decision for a request the owner was told of and that is undecided.   *)

Undecided(i) ==
  /\ emitted[i].kind = "approval_required"
  /\ \A j \in DOMAIN answers : answers[j].for # emitted[i].id

Refused ==
  /\ failures < MaxFailures
  /\ failures' = failures + 1
  /\ UNCHANGED <<emitted, channel, agent, inbox, answers>>

(* The process is gone: said once, with the next poll.                     *)
RespondDead(i) ==
  /\ Undecided(i)
  /\ ~(pipe.alive /\ agent.alive)
  /\ adapter' = IF adapter.state = "Finished" THEN adapter
                ELSE Fail(adapter, "adapter_error")
  /\ pipe' = [pipe EXCEPT !.alive = FALSE]
  /\ Refused

(* Made for a task of another agent, or before there is a session.         *)
RespondOtherTask ==
  /\ UNCHANGED <<adapter, pipe>>
  /\ Refused

RespondNotBlocked(i) ==
  /\ Undecided(i)
  /\ pipe.alive /\ agent.alive
  /\ adapter.state # "Blocked"
  /\ UNCHANGED <<adapter, pipe>>
  /\ Refused

(* Alive when looked at, gone when written to: finished, and nothing said. *)
RespondWriteFails(i) ==
  /\ Undecided(i)
  /\ pipe.alive /\ agent.alive
  /\ adapter.state = "Blocked"
  /\ adapter' = [adapter EXCEPT !.state = "Finished", !.pending = NoPending]
  /\ UNCHANGED pipe
  /\ Refused

RespondDelivered_StillBlocked(i, decision) ==    \* variant: remains blocked
  /\ Undecided(i)
  /\ pipe.alive /\ agent.alive
  /\ adapter.state = "Blocked"
  /\ inbox' = Append(inbox, [kind |-> "outcome", id |-> adapter.pending.id])
  /\ answers' = Append(answers, [for |-> emitted[i].id,
                                 id |-> adapter.pending.id,
                                 decision |-> decision,
                                 offer |-> adapter.pending.offer,
                                 option |-> Selected(decision, adapter.pending.offer)])
  /\ UNCHANGED <<adapter, emitted, channel, pipe, agent, failures>>

(* The decision answers the request that is pending, whichever it was made *)
(* for: the number of the request is not looked at.                        *)
RespondDelivered(i, decision) ==
  /\ Undecided(i)
  /\ pipe.alive /\ agent.alive
  /\ adapter.state = "Blocked"
  /\ inbox' = Append(inbox, [kind |-> "outcome", id |-> adapter.pending.id])
  /\ answers' = Append(answers, [for |-> emitted[i].id,
                                 id |-> adapter.pending.id,
                                 decision |-> decision,
                                 offer |-> adapter.pending.offer,
                                 option |-> Selected(decision, adapter.pending.offer)])
  /\ adapter' = [adapter EXCEPT !.state = "Prompting", !.pending = NoPending]
  /\ UNCHANGED <<emitted, channel, pipe, agent, failures>>

(* The owner that polls is the one that hands over decisions: one at a time.*)
Respond ==
  /\ ~adapter.polling
  /\ \/ RespondOtherTask
     \/ \E i \in DOMAIN emitted :
          \/ RespondDead(i)
          \/ RespondNotBlocked(i)
          \/ RespondWriteFails(i)
          \/ \E decision \in {"Approve", "Deny"} : RespondDelivered(i, decision)

-----------------------------------------------------------------------------
(* The agent.  It answers what it is asked, and while it has a prompt to   *)
(* work on it reports tools, asks for permissions and ends its turn.       *)

AgentUnchanged == UNCHANGED <<adapter, emitted, pipe, answers, failures>>

CanWrite == agent.alive /\ pipe.open

AgentReads ==
  /\ agent.alive /\ inbox # <<>>
  /\ inbox' = Tail(inbox)
  /\ agent' = IF Head(inbox).kind = "result"
              THEN [agent EXCEPT !.owes = @ \cup {Head(inbox).id},
                                 !.turn = @ \/ Head(inbox).id = 3]
              ELSE agent
  /\ UNCHANGED channel
  /\ AgentUnchanged

AgentReplies ==
  /\ CanWrite
  /\ \E id \in agent.owes :
       /\ agent' = [agent EXCEPT !.owes = @ \ {id}, !.turn = @ /\ id # 3]
       /\ \E line \in {Result(id), Failure(id)}
                        \cup (IF id = 2 THEN {NoSession} ELSE {}) :
            channel' = Append(channel, line)
  /\ UNCHANGED inbox
  /\ AgentUnchanged

AgentAsks ==
  /\ CanWrite /\ agent.turn
  /\ Cardinality(agent.asked) < MaxAsks
  /\ LET id == 100 + Cardinality(agent.asked) + 1 IN
     /\ agent' = [agent EXCEPT !.asked = @ \cup {id}]
     /\ \E offer \in Offers : channel' = Append(channel, Permission(id, offer))
  /\ UNCHANGED inbox
  /\ AgentUnchanged

AgentUpdates ==
  /\ CanWrite
  /\ agent.updates < MaxUpdates
  /\ agent' = [agent EXCEPT !.updates = @ + 1]
  /\ \E kind \in {"text"} \cup (IF agent.turn THEN {"tool"} ELSE {}) :
       channel' = Append(channel, Update(kind))
  /\ UNCHANGED inbox
  /\ AgentUnchanged

AgentDies ==
  /\ agent.alive
  /\ agent' = [agent EXCEPT !.alive = FALSE]
  /\ UNCHANGED <<channel, inbox>>
  /\ AgentUnchanged

(* The reader of stdout comes to the end of it; a process that lives may   *)
(* close it as well.                                                       *)
ReaderEnds ==
  /\ pipe.open
  /\ pipe' = [pipe EXCEPT !.open = FALSE, !.alive = FALSE]
  /\ channel' = Append(channel, Eof)
  /\ UNCHANGED <<adapter, emitted, agent, inbox, answers, failures>>

Next ==
  \/ Poll \/ Respond
  \/ AgentReads \/ AgentReplies \/ AgentAsks \/ AgentUpdates \/ AgentDies
  \/ ReaderEnds

Spec == Init /\ [][Next]_vars

(* The owner polls every adapter on a timer, and the reader of a process   *)
(* that is gone comes to the end of its output.                            *)
FairSpec ==
  /\ Spec
  /\ WF_vars(Poll)
  /\ WF_vars(ReaderEnds /\ ~agent.alive)

-----------------------------------------------------------------------------
(* Properties.                                                             *)

(* The permissions asked for in a sequence of lines or of events.          *)
IsAsk(x) == x.kind \in {"permission", "approval_required"}

AskIds(s) == {s[i].id : i \in {j \in DOMAIN s : IsAsk(s[j])}}

Rising(s) ==
  \A i, j \in DOMAIN s : IsAsk(s[i]) /\ IsAsk(s[j]) /\ i < j => s[i].id < s[j].id

Before(s, t) == \A x \in AskIds(s), y \in AskIds(t) : x < y

(* Every permission the agent asks for is shown or about to be, once and in*)
(* the order asked, however many it asks for before one is answered and    *)
(* whatever ends in between.                                               *)
AsksShown ==
  /\ AskIds(emitted) \cup AskIds(adapter.out) \cup AskIds(channel) = agent.asked
  /\ Rising(emitted) /\ Rising(adapter.out) /\ Rising(channel)
  /\ Before(emitted, adapter.out)
  /\ Before(emitted, channel) /\ Before(adapter.out, channel)

(* The agent gets at most one answer to a permission, and none to one that *)
(* it did not ask for.                                                     *)
AnsweredOnce ==
  /\ \A i \in DOMAIN answers : answers[i].id \in agent.asked
  /\ \A i, j \in DOMAIN answers : answers[i].id = answers[j].id => i = j

(* What is selected is what was decided: a denial never selects an option  *)
(* that allows, an approval one that rejects only if nothing else is       *)
(* offered.                                                                *)
DecisionMeansItself ==
  \A i \in DOMAIN answers :
    LET a == answers[i] IN
    /\ a.decision = "Deny" => a.option.kind # "allow"
    /\ (a.decision = "Approve" /\ \E j \in DOMAIN a.offer : Allows(a.offer[j]))
         => a.option.kind # "reject"

(* The end of the agent is noticed, whatever the adapter was waiting for.  *)
EndNoticed == (~agent.alive) ~> (adapter.state = "Finished")

(* A decision answers the request it was made for (adapter.rs: adapters    *)
(* that track pending requests use the number to reject responses aimed at *)
(* a superseded request).                                                  *)
DecisionAnswersItsRequest ==
  \A i \in DOMAIN answers : answers[i].id = answers[i].for

=============================================================================
