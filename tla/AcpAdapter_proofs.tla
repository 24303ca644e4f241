------------------------- MODULE AcpAdapter_proofs --------------------------
(***************************************************************************)
(* Theorems about the ACP adapter, for any offers and any number of        *)
(* permissions, updates and failed decisions: every permission is shown    *)
(* once and in order, and answered at most once, with what was decided.    *)
(*                                                                         *)
(* The argument: the numbers of permissions rise along the way a request   *)
(* takes, from the channel through the poll to the owner.  Hence what is   *)
(* read next was not read before, and what is pending is neither answered  *)
(* nor still to be read.                                                   *)
(***************************************************************************)
EXTENDS AcpAdapter, TLAPS, SequenceTheorems, FiniteSetTheorems,
        WellFoundedInduction

Lines ==
  [kind : {"text", "tool", "eof"}]
    \cup [kind : {"result", "no_session", "error"}, id : Nat]
    \cup [kind : {"permission"}, id : Nat, offer : Offers]

Told == {"progress", "started", "task_completed", "command_failed",
         "adapter_error"}

Events == [kind : Told \cup {"approval_required"}, seq : Nat, id : Nat]

Replies == [kind : {"result", "outcome"}, id : Nat]

Offered == Offers \cup {<<>>}

Adapters ==
  [state : {"Uninitialized", "Initializing", "CreatingSession", "Prompting",
            "Blocked", "Finished"},
   pending : [id : Nat, offer : Offered], seq : Nat,
   out : Seq(Events), sent : Seq(Nat), polling : BOOLEAN]

Settled ==
  {[for |-> f, id |-> n, decision |-> d, offer |-> o, option |-> Selected(d, o)] :
     f \in Nat, n \in Nat, d \in {"Approve", "Deny"}, o \in Offered}

TypeOK ==
  /\ adapter \in Adapters
  /\ emitted \in Seq(Events)
  /\ channel \in Seq(Lines)
  /\ pipe \in [open : BOOLEAN, alive : BOOLEAN]
  /\ agent \in [alive : BOOLEAN, owes : SUBSET Nat, turn : BOOLEAN,
                asked : SUBSET Nat, updates : Nat]
  /\ inbox \in Seq(Replies)
  /\ answers \in Seq(Settled)

(* The agent numbers its permissions as it asks for them.                  *)
AskedInTurn == \E n \in Nat : agent.asked = 101..(100 + n)

Answered == {answers[i].id : i \in DOMAIN answers}

(* What has been answered has been read, and what is pending has been read *)
(* and not answered.                                                       *)
AnsweredWereRead == Answered \subseteq agent.asked \ AskIds(channel)

PendingIsOpen ==
  adapter.state = "Blocked"
    => adapter.pending.id \in agent.asked \ (AskIds(channel) \cup Answered)

IInv ==
  /\ TypeOK /\ AskedInTurn
  /\ AsksShown /\ AnsweredOnce
  /\ AnsweredWereRead /\ PendingIsOpen

-----------------------------------------------------------------------------
(* Permissions along a sequence.                                           *)

LEMMA AskConcat ==
  ASSUME NEW S, NEW s \in Seq(S), NEW t \in Seq(S)
  PROVE  /\ AskIds(s \o t) = AskIds(s) \cup AskIds(t)
         /\ (Rising(s) /\ Rising(t) /\ Before(s, t)) => Rising(s \o t)
<1>. PICK m \in Nat : m = Len(s) /\ DOMAIN s = 1..m
  OBVIOUS
<1>. PICK n \in Nat : n = Len(t) /\ DOMAIN t = 1..n
  OBVIOUS
<1>0. PICK c \in Seq(S) : c = s \o t
  BY ConcatProperties
<1>1. DOMAIN c = 1..(m + n)
  <2>1. Len(c) = m + n
    BY <1>0, ConcatProperties
  <2>. QED
    BY <2>1
<1>2. \A i \in 1..m : i \in DOMAIN c /\ c[i] = s[i]
  BY <1>0, <1>1, ConcatProperties
<1>3. \A i \in 1..n : i + m \in DOMAIN c /\ c[i + m] = t[i]
  BY <1>0, <1>1, ConcatProperties
<1>4. \A i \in DOMAIN c : i \in 1..m \/ \E j \in 1..n : i = j + m
  <2>. TAKE i \in DOMAIN c
  <2>1. i > m => i - m \in 1..n /\ i = (i - m) + m
    BY <1>1
  <2>. QED
    BY <1>1, <2>1
<1>5. AskIds(c) = AskIds(s) \cup AskIds(t)
  <2>1. ASSUME NEW x \in AskIds(c) PROVE x \in AskIds(s) \cup AskIds(t)
    <3>1. PICK i \in DOMAIN c : IsAsk(c[i]) /\ x = c[i].id
      BY DEF AskIds
    <3>2. CASE i \in 1..m
      BY <1>2, <3>1, <3>2 DEF AskIds
    <3>3. ASSUME NEW j \in 1..n, i = j + m PROVE x \in AskIds(t)
      BY <1>3, <3>1, <3>3 DEF AskIds
    <3>. QED
      BY <1>4, <3>2, <3>3
  <2>2. \A x \in AskIds(s) : x \in AskIds(c)
    BY <1>2 DEF AskIds
  <2>3. \A x \in AskIds(t) : x \in AskIds(c)
    BY <1>3 DEF AskIds
  <2>. QED
    BY <2>1, <2>2, <2>3
<1>6. ASSUME Rising(s), Rising(t), Before(s, t) PROVE Rising(c)
  <2>. SUFFICES ASSUME NEW i \in DOMAIN c, NEW j \in DOMAIN c,
                       IsAsk(c[i]), IsAsk(c[j]), i < j
                PROVE  c[i].id < c[j].id
    BY DEF Rising
  <2>1. CASE i \in 1..m /\ j \in 1..m
    BY <1>2, <1>6, <2>1 DEF Rising
  <2>2. ASSUME i \in 1..m, NEW b \in 1..n, j = b + m PROVE c[i].id < c[j].id
    <3>1. s[i].id \in AskIds(s) /\ t[b].id \in AskIds(t)
      BY <1>2, <1>3, <2>2 DEF AskIds
    <3>. QED
      BY <1>2, <1>3, <1>6, <2>2, <3>1 DEF Before
  <2>3. ASSUME NEW a \in 1..n, NEW b \in 1..n, i = a + m, j = b + m
        PROVE  c[i].id < c[j].id
    <3>1. IsAsk(t[a]) /\ IsAsk(t[b]) /\ a < b
      BY <1>3, <2>3
    <3>. QED
      BY <1>3, <1>6, <2>3, <3>1 DEF Rising
  <2>4. ASSUME NEW a \in 1..n, i = a + m, j \in 1..m PROVE FALSE
    BY <2>4
  <2>. QED
    BY <1>4, <2>1, <2>2, <2>3, <2>4
<1>. QED
  BY <1>0, <1>5, <1>6

LEMMA AskAppend ==
  ASSUME NEW S, NEW s \in Seq(S), NEW e
  PROVE  /\ AskIds(Append(s, e)) = AskIds(s) \cup (IF IsAsk(e) THEN {e.id} ELSE {})
         /\ (Rising(s) /\ (IsAsk(e) => \A x \in AskIds(s) : x < e.id))
              => Rising(Append(s, e))
<1>. DEFINE U == S \cup {e}
            t == <<e>>
<1>1. s \in Seq(U) /\ t \in Seq(U) /\ Append(s, e) = s \o t
  <2>1. s \in Seq(U) /\ e \in U
    OBVIOUS
  <2>. QED
    BY <2>1, AppendIsConcat
<1>2. AskIds(t) = IF IsAsk(e) THEN {e.id} ELSE {}
  BY DEF AskIds
<1>3. Rising(t)
  BY DEF Rising
<1>. HIDE DEF U, t
<1>. QED
  BY <1>1, <1>2, <1>3, AskConcat DEF Before

LEMMA AskTail ==
  ASSUME NEW S, NEW s \in Seq(S), s # <<>>, Rising(s)
  PROVE  /\ Rising(Tail(s)) /\ Tail(s) \in Seq(S)
         /\ AskIds(s) = AskIds(Tail(s))
                          \cup (IF IsAsk(Head(s)) THEN {Head(s).id} ELSE {})
         /\ IsAsk(Head(s)) => \A x \in AskIds(Tail(s)) : Head(s).id < x
<1>. DEFINE t == Tail(s)
            h == Head(s)
<1>1. PICK m \in Nat : m = Len(s) /\ m > 0 /\ DOMAIN s = 1..m
  OBVIOUS
<1>2. t \in Seq(S) /\ h = s[1] /\ DOMAIN t = 1..(m - 1)
      /\ \A i \in 1..(m - 1) : t[i] = s[i + 1]
  <2>1. t \in Seq(S) /\ Len(t) = m - 1 /\ h = s[1]
        /\ \A i \in 1..Len(t) : t[i] = s[i + 1]
    BY <1>1, HeadTailProperties
  <2>. QED
    BY <1>1, <2>1
<1>. HIDE DEF t, h
<1>3. \A i \in DOMAIN t : i + 1 \in DOMAIN s /\ t[i] = s[i + 1] /\ 1 < i + 1
  BY <1>1, <1>2
<1>4. \A i \in DOMAIN s : i = 1 \/ \E j \in DOMAIN t : i = j + 1
  <2>. TAKE i \in DOMAIN s
  <2>1. i # 1 => i - 1 \in DOMAIN t /\ i = (i - 1) + 1
    BY <1>1, <1>2
  <2>. QED
    BY <2>1
<1>5. 1 \in DOMAIN s
  BY <1>1
<1>6. Rising(t)
  <2>. SUFFICES ASSUME NEW i \in DOMAIN t, NEW j \in DOMAIN t,
                       IsAsk(t[i]), IsAsk(t[j]), i < j
                PROVE  t[i].id < t[j].id
    BY DEF Rising
  <2>1. i + 1 < j + 1
    BY <1>2
  <2>. QED
    BY <1>3, <2>1 DEF Rising
<1>7. AskIds(s) = AskIds(t) \cup (IF IsAsk(h) THEN {h.id} ELSE {})
  <2>1. \A x \in AskIds(t) : x \in AskIds(s)
    BY <1>3 DEF AskIds
  <2>2. \A x \in AskIds(s) : x \in AskIds(t) \/ (IsAsk(h) /\ x = h.id)
    BY <1>2, <1>3, <1>4 DEF AskIds
  <2>3. IsAsk(h) => h.id \in AskIds(s)
    BY <1>2, <1>5 DEF AskIds
  <2>. QED
    BY <2>1, <2>2, <2>3
<1>8. ASSUME IsAsk(h), NEW x \in AskIds(t) PROVE h.id < x
  <2>1. PICK j \in DOMAIN t : IsAsk(t[j]) /\ x = t[j].id
    BY DEF AskIds
  <2>. QED
    BY <1>2, <1>3, <1>5, <1>8, <2>1 DEF Rising
<1>. QED
  BY <1>2, <1>6, <1>7, <1>8 DEF t, h

-----------------------------------------------------------------------------
(* What the adapter makes of a line.                                       *)

(* Quiet: nothing is asked for, and nothing becomes pending.               *)
Quiet(a, b) ==
  /\ b \in Adapters
  /\ AskIds(b.out) = AskIds(a.out)
  /\ Rising(a.out) => Rising(b.out)
  /\ b.state = "Blocked" => a.state = "Blocked" /\ b.pending = a.pending

LEMMA QuietTransitive ==
  ASSUME NEW a, NEW b, NEW c, Quiet(a, b), Quiet(b, c)
  PROVE  Quiet(a, c)
BY DEF Quiet

LEMMA EmitEffect ==
  ASSUME NEW a \in Adapters, NEW kind \in Told \cup {"approval_required"}, NEW id \in Nat
  PROVE  LET b == Emit(a, kind, id) IN
         /\ b \in Adapters
         /\ b.state = a.state /\ b.pending = a.pending
         /\ b.out = Append(a.out, Event(kind, a.seq + 1, id))
<1>1. a.out \in Seq(Events) /\ a.seq + 1 \in Nat
  BY DEF Adapters
<1>2. PICK e \in Events : e = Event(kind, a.seq + 1, id)
  BY <1>1 DEF Event, Events
<1>3. PICK o \in Seq(Events) : o = Append(a.out, e)
  BY <1>1, AppendProperties
<1>4. Emit(a, kind, id) = [a EXCEPT !.seq = a.seq + 1, !.out = o]
  BY <1>2, <1>3 DEF Emit, Adapters
<1>. QED
  BY <1>1, <1>2, <1>3, <1>4 DEF Adapters

LEMMA EmitQuiet ==
  ASSUME NEW a \in Adapters, NEW kind \in Told
  PROVE  Quiet(a, Emit(a, kind, 0))
<1>. DEFINE b == Emit(a, kind, 0)
            e == Event(kind, a.seq + 1, 0)
<1>1. /\ b \in Adapters /\ b.state = a.state /\ b.pending = a.pending
      /\ b.out = Append(a.out, e)
  BY EmitEffect
<1>2. ~IsAsk(e)
  BY DEF Event, IsAsk, Told
<1>3. a.out \in Seq(Events)
  BY DEF Adapters
<1>. HIDE DEF b, e
<1>4. /\ AskIds(Append(a.out, e)) = AskIds(a.out)
      /\ Rising(a.out) => Rising(Append(a.out, e))
  BY <1>2, <1>3, AskAppend
<1>. QED
  BY <1>1, <1>4 DEF Quiet, b

LEMMA FailQuiet ==
  ASSUME NEW a \in Adapters, NEW kind \in Told
  PROVE  Quiet(a, Fail(a, kind))
<1>1. PICK b : b = Emit(a, kind, 0) /\ Quiet(a, b)
  BY EmitQuiet
<1>2. Fail(a, kind) = [b EXCEPT !.state = "Finished"]
  BY <1>1 DEF Fail
<1>. QED
  BY <1>1, <1>2 DEF Quiet, Adapters

LEMMA SendQuiet ==
  ASSUME NEW a \in Adapters, NEW id \in Nat, NEW ok \in BOOLEAN,
         NEW state \in {"Initializing", "CreatingSession", "Prompting"}
  PROVE  Quiet(a, Send(a, id, state, ok))
<1>1. CASE ok
  <2>1. PICK o \in Seq(Nat) : o = Append(a.sent, id)
    BY AppendProperties DEF Adapters
  <2>2. Send(a, id, state, ok) = [a EXCEPT !.state = state, !.sent = o]
    BY <1>1, <2>1 DEF Send, Adapters
  <2>. QED
    BY <2>2 DEF Quiet, Adapters
<1>2. CASE ~ok
  BY <1>2, FailQuiet DEF Send, Told
<1>. QED
  BY <1>1, <1>2

LEMMA HandleQuiet ==
  ASSUME NEW a \in Adapters, NEW line \in Lines, NEW ok \in BOOLEAN, ~IsAsk(line)
  PROVE  Quiet(a, Handle(a, line, ok))
<1>0. line.kind # "permission"
  BY DEF IsAsk
<1>1. Quiet(a, a)
  BY DEF Quiet
<1>2. CASE line.kind \in {"text", "tool"}
  BY <1>1, <1>2, EmitQuiet
     DEF Handle, HandleLine, HandleNotification, Told
<1>3. CASE line.kind = "eof"
  BY <1>1, <1>3, FailQuiet DEF Handle, HandleLine, HandleEof, Told
<1>4. CASE line.kind \notin {"text", "tool", "eof"}
  <2>1. Handle(a, line, ok) = HandleResponse(a, line, ok)
    BY <1>0, <1>4 DEF Handle, HandleLine
  <2>2. PICK b \in Adapters : b = Emit(a, "started", 0) /\ Quiet(a, b)
    BY EmitQuiet DEF Told, Quiet
  <2>3. Quiet(a, Send(b, 3, "Prompting", ok))
    BY <2>2, SendQuiet, QuietTransitive
  <2>4. Quiet(a, Send(a, 2, "CreatingSession", ok))
    BY SendQuiet
  <2>5. Quiet(a, Fail(a, "command_failed")) /\ Quiet(a, Fail(a, "task_completed"))
    BY FailQuiet DEF Told
  <2>. QED
    BY <1>1, <2>1, <2>2, <2>3, <2>4, <2>5 DEF HandleResponse
<1>. QED
  BY <1>2, <1>3, <1>4

LEMMA HandleAsk ==
  ASSUME NEW a \in Adapters, NEW line \in Lines, NEW ok \in BOOLEAN, IsAsk(line)
  PROVE  LET b == Handle(a, line, ok) IN
         /\ b \in Adapters /\ line.id \in Nat
         /\ AskIds(b.out) = AskIds(a.out) \cup {line.id}
         /\ (Rising(a.out) /\ \A x \in AskIds(a.out) : x < line.id) => Rising(b.out)
         /\ b.pending.id = line.id
<1>1. line \in [kind : {"permission"}, id : Nat, offer : Offers]
  BY DEF IsAsk, Lines
<1>2. PICK b : b = Emit(a, "approval_required", line.id)
  OBVIOUS
<1>. PICK e : e = Event("approval_required", a.seq + 1, line.id)
  OBVIOUS
<1>3. b \in Adapters /\ b.out = Append(a.out, e)
  <2>1. line.id \in Nat
    BY <1>1
  <2>2. "approval_required" \in Told \cup {"approval_required"}
    OBVIOUS
  <2>. HIDE <1>1
  <2>. QED
    BY <1>2, <2>1, <2>2, EmitEffect
<1>4. IsAsk(e) /\ e.id = line.id
  BY DEF Event, IsAsk
<1>5. a.out \in Seq(Events)
  BY DEF Adapters
<1>6. /\ AskIds(b.out) = AskIds(a.out) \cup {line.id}
      /\ (Rising(a.out) /\ \A x \in AskIds(a.out) : x < line.id) => Rising(b.out)
  BY <1>3, <1>4, <1>5, AskAppend
<1>7. PICK p \in [id : Nat, offer : Offered] : p = [id |-> line.id, offer |-> line.offer]
  BY <1>1 DEF Offered
<1>8. Handle(a, line, ok) = [b EXCEPT !.state = "Blocked", !.pending = p]
  BY <1>1, <1>2, <1>7 DEF Handle, HandleLine, HandlePermission
<1>9. PICK c : c = Handle(a, line, ok)
  OBVIOUS
<1>10. c \in Adapters /\ c.out = b.out /\ c.pending = p
  BY <1>3, <1>7, <1>8, <1>9 DEF Adapters
<1>. QED
  BY <1>1, <1>3, <1>6, <1>7, <1>9, <1>10

-----------------------------------------------------------------------------
(* The steps.                                                              *)

LEMMA InitHolds == Init => IInv
<1>. SUFFICES ASSUME Init PROVE IInv
  OBVIOUS
<1>1. AskIds(<<>>) = {} /\ Rising(<<>>) /\ Before(<<>>, <<>>)
  BY DEF AskIds, Rising, Before
<1>2. TypeOK
  <2>1. adapter \in Adapters
    BY DEF Init, Adapters, NoPending, Offered
  <2>2. adapter.out = <<>> /\ agent.asked = {}
    BY DEF Init
  <2>. QED
    BY <2>1 DEF Init, TypeOK
<1>3. AskedInTurn
  <2>1. agent.asked = 101..(100 + 0)
    BY DEF Init
  <2>. QED
    BY <2>1 DEF AskedInTurn
<1>4. AsksShown
  BY <1>1 DEF Init, AsksShown
<1>. QED
  BY <1>1, <1>2, <1>3, <1>4
     DEF Init, IInv, AnsweredOnce, AnsweredWereRead, Answered, PendingIsOpen

(* The adapter has become a state of it, and what it wrote is on its way.  *)
LEMMA BecomesEffect ==
  ASSUME TypeOK, NEW a \in Adapters, Becomes(a)
  PROVE  Quiet(a, adapter') /\ adapter'.out = a.out /\ inbox' \in Seq(Replies)
<1>1. adapter' = [a EXCEPT !.sent = <<>>]
  BY DEF Becomes
<1>2. adapter' \in Adapters
  <2>. PICK w \in Seq(Nat) : w = <<>>
    BY EmptySeq
  <2>1. adapter' = [a EXCEPT !.sent = w]
    BY <1>1
  <2>. QED
    BY <2>1 DEF Adapters
<1>3. PICK m \in Nat : m = Len(a.sent) /\ DOMAIN a.sent = 1..m
                       /\ \A i \in 1..m : a.sent[i] \in Nat
  BY DEF Adapters
<1>4. PICK w : w = [i \in 1..m |-> Result(a.sent[i])]
  OBVIOUS
<1>5. w \in Seq(Replies)
  BY <1>3, <1>4 DEF Result, Replies
<1>6. inbox' = inbox \o w
  BY <1>3, <1>4 DEF Becomes
<1>7. inbox' \in Seq(Replies)
  BY <1>5, <1>6, ConcatProperties DEF TypeOK
<1>. QED
  BY <1>1, <1>2, <1>7 DEF Quiet, Adapters

(* A step that only brings the adapter to a quiet successor keeps all.     *)
LEMMA QuietStep ==
  ASSUME IInv, Quiet(adapter, adapter'), inbox' \in Seq(Replies),
         pipe' \in [open : BOOLEAN, alive : BOOLEAN],
         UNCHANGED <<emitted, channel, agent, answers>>
  PROVE  IInv'
<1>1. TypeOK' /\ AskedInTurn'
  BY DEF IInv, TypeOK, AskedInTurn, Quiet
<1>2. AsksShown'
  BY DEF IInv, AsksShown, Quiet, Before
<1>3. AnsweredOnce' /\ AnsweredWereRead'
  BY DEF IInv, AnsweredOnce, AnsweredWereRead, Answered
<1>4. PendingIsOpen'
  BY DEF IInv, PendingIsOpen, Answered, Quiet
<1>. QED
  BY <1>1, <1>2, <1>3, <1>4 DEF IInv

(* So does a poll that returns from one: the owner has been given all that *)
(* was to be given.                                                        *)
LEMMA ReturnsKeeps ==
  ASSUME IInv, NEW a, Quiet(adapter, a), Returns(a),
         UNCHANGED <<channel, pipe, agent, answers>>
  PROVE  IInv'
<1>1. PICK b : b = [a EXCEPT !.out = <<>>, !.polling = FALSE]
  OBVIOUS
<1>2. b \in Adapters /\ b.out = <<>> /\ b.pending = a.pending /\ b.state = a.state
  <2>. PICK w \in Seq(Events) : w = <<>>
    BY EmptySeq
  <2>1. b = [a EXCEPT !.out = w, !.polling = FALSE]
    BY <1>1
  <2>2. a \in Adapters /\ FALSE \in BOOLEAN
    BY DEF Quiet
  <2>. QED
    BY <2>1, <2>2 DEF Adapters
<1>3. Becomes(b) /\ emitted' = emitted \o a.out
  BY <1>1 DEF Returns
<1>4. Quiet(b, adapter') /\ adapter'.out = <<>> /\ inbox' \in Seq(Replies)
  BY <1>2, <1>3, BecomesEffect DEF IInv
<1>5. emitted \in Seq(Events) /\ a.out \in Seq(Events)
  BY DEF IInv, TypeOK, Quiet, Adapters
<1>6. AskIds(a.out) = AskIds(adapter.out) /\ Rising(a.out) /\ Before(emitted, a.out)
      /\ Before(a.out, channel)
  BY DEF IInv, AsksShown, Quiet, Before
<1>7. /\ AskIds(emitted') = AskIds(emitted) \cup AskIds(adapter.out)
      /\ Rising(emitted') /\ emitted' \in Seq(Events)
  <2>. HIDE DEF IInv
  <2>1. Rising(emitted)
    BY DEF IInv, AsksShown
  <2>. QED
    BY <1>3, <1>5, <1>6, <2>1, AskConcat, ConcatProperties
<1>8. AskIds(adapter'.out) = {} /\ Rising(adapter'.out)
  BY <1>4 DEF AskIds, Rising
<1>9. TypeOK' /\ AskedInTurn'
  BY <1>4, <1>7 DEF IInv, TypeOK, AskedInTurn, Quiet
<1>10. AsksShown'
  <2>1. Before(emitted', adapter'.out) /\ Before(adapter'.out, channel)
    BY <1>8 DEF Before
  <2>2. Before(emitted', channel)
    BY <1>7 DEF IInv, AsksShown, Before
  <2>. QED
    BY <1>7, <1>8, <2>1, <2>2 DEF IInv, AsksShown
<1>11. AnsweredOnce' /\ AnsweredWereRead'
  BY DEF IInv, AnsweredOnce, AnsweredWereRead, Answered
<1>12. PendingIsOpen'
  BY <1>2, <1>4 DEF IInv, PendingIsOpen, Answered, Quiet
<1>. QED
  BY <1>9, <1>10, <1>11, <1>12 DEF IInv

LEMMA PollStartsKeeps == ASSUME IInv, PollStarts PROVE IInv'
<1>1. adapter \in Adapters
  BY DEF IInv, TypeOK
<1>. PICK first : first = (adapter.state = "Uninitialized")
  OBVIOUS
<1>. DEFINE Greeted(ok) ==
       IF first THEN Send(adapter, 1, "Initializing", ok) ELSE adapter
<1>a. PICK ok \in BOOLEAN :
        /\ IF first /\ ~ok THEN Returns(Greeted(ok))
           ELSE Becomes([Greeted(ok) EXCEPT !.polling = TRUE]) /\ UNCHANGED emitted
        /\ UNCHANGED <<channel, pipe, agent, answers, failures>>
  BY Zenon DEF PollStarts
<1>b. PICK greeted : greeted = Greeted(ok)
  OBVIOUS
<1>2. /\ first = (adapter.state = "Uninitialized")
      /\ greeted = IF first THEN Send(adapter, 1, "Initializing", ok) ELSE adapter
      /\ IF first /\ ~ok THEN Returns(greeted)
         ELSE Becomes([greeted EXCEPT !.polling = TRUE]) /\ UNCHANGED emitted
      /\ UNCHANGED <<channel, pipe, agent, answers, failures>>
  BY Zenon, <1>a, <1>b
<1>3. Quiet(adapter, greeted)
  <2>1. Quiet(adapter, adapter)
    BY <1>1 DEF Quiet
  <2>. QED
    BY <1>1, <1>2, <2>1, SendQuiet
<1>4. CASE Returns(greeted)
  BY <1>2, <1>3, <1>4, ReturnsKeeps
<1>5. CASE Becomes([greeted EXCEPT !.polling = TRUE]) /\ UNCHANGED emitted
  <2>1. PICK b : b = [greeted EXCEPT !.polling = TRUE]
    OBVIOUS
  <2>2. Quiet(greeted, b)
    BY <1>3, <2>1 DEF Quiet, Adapters
  <2>3. Quiet(b, adapter') /\ inbox' \in Seq(Replies)
    BY <1>5, <2>1, <2>2, BecomesEffect DEF IInv, Quiet
  <2>4. Quiet(adapter, adapter')
    BY <1>3, <2>2, <2>3, QuietTransitive
  <2>5. pipe' \in [open : BOOLEAN, alive : BOOLEAN]
    BY <1>2 DEF IInv, TypeOK
  <2>. QED
    BY <1>2, <1>5, <2>3, <2>4, <2>5, QuietStep
<1>. QED
  BY <1>2, <1>4, <1>5

LEMMA PollEndsKeeps == ASSUME IInv, PollEnds PROVE IInv'
<1>1. Quiet(adapter, adapter)
  BY DEF IInv, TypeOK, Quiet
<1>. QED
  BY <1>1, ReturnsKeeps DEF PollEnds

(* What is read next asks for more than all that was read, and for less    *)
(* than all that is still to be read.                                      *)
LEMMA PollReadsKeeps == ASSUME IInv, PollReads PROVE IInv'
<1>1. adapter \in Adapters /\ channel \in Seq(Lines) /\ channel # <<>>
      /\ Rising(channel)
  BY DEF IInv, TypeOK, AsksShown, PollReads
<1>2. PICK ok \in BOOLEAN : /\ Becomes(Handle(adapter, Head(channel), ok))
                            /\ channel' = Tail(channel)
                            /\ UNCHANGED <<emitted, pipe, agent, answers, failures>>
  BY DEF PollReads
<1>3. PICK line \in Lines : line = Head(channel)
  BY <1>1
<1>4. PICK b : b = Handle(adapter, line, ok)
  OBVIOUS
<1>5. /\ Rising(channel') /\ channel' \in Seq(Lines)
      /\ AskIds(channel) = AskIds(channel')
                             \cup (IF IsAsk(line) THEN {line.id} ELSE {})
      /\ IsAsk(line) => \A x \in AskIds(channel') : line.id < x
  BY <1>1, <1>2, <1>3, AskTail
<1>6. b \in Adapters
  BY <1>1, <1>4, HandleQuiet, HandleAsk DEF Quiet
<1>7. Quiet(b, adapter') /\ inbox' \in Seq(Replies)
  BY <1>2, <1>3, <1>4, <1>6, BecomesEffect DEF IInv
<1>8. TypeOK' /\ AskedInTurn'
  BY <1>2, <1>5, <1>7 DEF IInv, TypeOK, AskedInTurn, Quiet
<1>9. AnsweredOnce' /\ AnsweredWereRead'
  BY <1>2, <1>5 DEF IInv, AnsweredOnce, AnsweredWereRead, Answered
<1>10. CASE ~IsAsk(line)
  <2>1. Quiet(adapter, adapter')
    BY <1>1, <1>4, <1>7, <1>10, HandleQuiet, QuietTransitive
  <2>2. AskIds(channel') = AskIds(channel)
    BY <1>5, <1>10
  <2>3. AsksShown'
    BY <1>2, <1>5, <2>1, <2>2 DEF IInv, AsksShown, Quiet, Before
  <2>4. PendingIsOpen'
    BY <1>2, <2>1, <2>2 DEF IInv, PendingIsOpen, Answered, Quiet
  <2>. QED
    BY <1>8, <1>9, <2>3, <2>4 DEF IInv
<1>11. CASE IsAsk(line)
  <2>1. line.id \in AskIds(channel) /\ AskIds(channel') \subseteq AskIds(channel)
    BY <1>5, <1>11
  <2>2. \A x \in AskIds(emitted) \cup AskIds(adapter.out) : x < line.id
    BY <2>1 DEF IInv, AsksShown, Before
  <2>3. /\ AskIds(b.out) = AskIds(adapter.out) \cup {line.id}
        /\ Rising(b.out) /\ b.pending.id = line.id /\ line.id \in Nat
    <3>1. Rising(adapter.out) /\ \A x \in AskIds(adapter.out) : x < line.id
      BY <2>2 DEF IInv, AsksShown
    <3>. QED
      BY <1>1, <1>4, <1>11, <3>1, HandleAsk
  <2>4. /\ AskIds(adapter'.out) = AskIds(adapter.out) \cup {line.id}
        /\ Rising(adapter'.out)
        /\ adapter'.state = "Blocked" => adapter'.pending.id = line.id
    BY <1>7, <2>3 DEF Quiet
  <2>5. AsksShown'
    BY <1>2, <1>5, <1>11, <2>1, <2>2, <2>4 DEF IInv, AsksShown, Before
  <2>6. PendingIsOpen'
    <3>1. line.id \in agent.asked /\ line.id \notin Answered
      BY <2>1 DEF IInv, AsksShown, AnsweredWereRead
    <3>2. line.id \notin AskIds(channel')
      BY <1>5, <1>11, <2>3
    <3>. QED
      BY <1>2, <2>4, <3>1, <3>2 DEF PendingIsOpen, Answered
  <2>. QED
    BY <1>8, <1>9, <2>5, <2>6 DEF IInv
<1>. QED
  BY <1>10, <1>11

(* A decision that fails.                                                  *)
LEMMA RefusedKeeps ==
  ASSUME IInv, Quiet(adapter, adapter'),
         pipe' \in [open : BOOLEAN, alive : BOOLEAN], Refused
  PROVE  IInv'
BY QuietStep DEF Refused, IInv, TypeOK

(* A decision that is delivered answers what is pending, which is open, and*)
(* leaves nothing pending.                                                 *)
LEMMA DeliveredKeeps ==
  ASSUME IInv, NEW i \in DOMAIN emitted, NEW decision \in {"Approve", "Deny"},
         RespondDelivered(i, decision)
  PROVE  IInv'
<1>. DEFINE offer == adapter.pending.offer
            id    == adapter.pending.id
            item == [for |-> emitted[i].id, id |-> id, decision |-> decision,
                     offer |-> offer, option |-> Selected(decision, offer)]
<1>1. /\ adapter.state = "Blocked" /\ answers' = Append(answers, item)
      /\ inbox' = Append(inbox, [kind |-> "outcome", id |-> id])
      /\ adapter' = [adapter EXCEPT !.state = "Prompting", !.pending = NoPending]
      /\ UNCHANGED <<emitted, channel, pipe, agent>>
  BY DEF RespondDelivered
<1>2. id \in Nat /\ offer \in Offered /\ emitted[i].id \in Nat
  <2>1. emitted[i] \in Events
    BY DEF IInv, TypeOK
  <2>2. adapter \in Adapters
    BY DEF IInv, TypeOK
  <2>. QED
    BY <2>1, <2>2 DEF Adapters, Events
<1>3. item \in Settled
  BY <1>2 DEF Settled
<1>4. item.id = id
  OBVIOUS
<1>5. id \in agent.asked /\ id \notin AskIds(channel) /\ id \notin Answered
  BY <1>1 DEF IInv, PendingIsOpen
<1>. HIDE DEF item, offer, id
<1>6. PICK m \in Nat : m = Len(answers) /\ DOMAIN answers = 1..m
  BY DEF IInv, TypeOK
<1>7. /\ answers' \in Seq(Settled) /\ DOMAIN answers' = 1..(m + 1)
      /\ \A k \in 1..m : answers'[k] = answers[k]
      /\ answers'[m + 1] = item
  <2>1. answers \in Seq(Settled)
    BY DEF IInv, TypeOK
  <2>2. /\ answers' \in Seq(Settled) /\ Len(answers') = m + 1
        /\ \A k \in 1..m : answers'[k] = answers[k]
        /\ answers'[m + 1] = item
    BY <1>1, <1>3, <1>6, <2>1, AppendProperties
  <2>. QED
    BY <2>2
<1>8. /\ adapter' \in Adapters /\ adapter'.out = adapter.out
      /\ adapter'.state # "Blocked"
  <2>1. adapter \in Adapters /\ NoPending \in [id : Nat, offer : Offered]
    BY DEF IInv, TypeOK, NoPending, Offered
  <2>. QED
    BY <1>1, <2>1 DEF Adapters
<1>9. inbox' \in Seq(Replies)
  <2>1. [kind |-> "outcome", id |-> id] \in Replies /\ inbox \in Seq(Replies)
    BY <1>2 DEF Replies, IInv, TypeOK
  <2>. QED
    BY <1>1, <2>1, AppendProperties
<1>10. TypeOK' /\ AskedInTurn'
  BY <1>1, <1>7, <1>8, <1>9 DEF IInv, TypeOK, AskedInTurn
<1>11. AsksShown'
  BY <1>1, <1>8 DEF IInv, AsksShown
<1>12. AnsweredWereRead'
  <2>. SUFFICES ASSUME NEW k \in DOMAIN answers'
                PROVE  answers'[k].id \in agent.asked \ AskIds(channel)
    BY <1>1 DEF AnsweredWereRead, Answered
  <2>1. CASE k \in 1..m
    BY <1>6, <1>7, <2>1 DEF IInv, AnsweredWereRead, Answered
  <2>2. CASE k = m + 1
    BY <1>4, <1>5, <1>7, <2>2
  <2>. QED
    BY <1>7, <2>1, <2>2
<1>13. AnsweredOnce'
  <2>1. ASSUME NEW k \in DOMAIN answers' PROVE answers'[k].id \in agent'.asked
    BY <1>1, <1>12 DEF AnsweredWereRead, Answered
  <2>2. ASSUME NEW k \in 1..m PROVE answers'[k].id # id
    BY <1>5, <1>6, <1>7 DEF Answered
  <2>3. ASSUME NEW k \in DOMAIN answers', NEW l \in DOMAIN answers',
               answers'[k].id = answers'[l].id
        PROVE  k = l
    <3>1. CASE k \in 1..m /\ l \in 1..m
      BY <1>6, <1>7, <2>3, <3>1 DEF IInv, AnsweredOnce
    <3>2. CASE k = m + 1 /\ l \in 1..m
      BY <1>4, <1>7, <2>2, <2>3, <3>2
    <3>3. CASE k \in 1..m /\ l = m + 1
      BY <1>4, <1>7, <2>2, <2>3, <3>3
    <3>. QED
      BY <1>7, <3>1, <3>2, <3>3
  <2>. QED
    BY <2>1, <2>3 DEF AnsweredOnce
<1>. QED
  BY <1>8, <1>10, <1>11, <1>12, <1>13 DEF IInv, PendingIsOpen

LEMMA RespondKeeps == ASSUME IInv, Respond PROVE IInv'
<1>1. /\ Quiet(adapter, adapter) /\ Quiet(adapter, Fail(adapter, "adapter_error"))
      /\ pipe \in [open : BOOLEAN, alive : BOOLEAN] /\ adapter \in Adapters
  BY FailQuiet DEF IInv, TypeOK, Quiet, Told
<1>2. CASE RespondOtherTask
  BY <1>1, <1>2, RefusedKeeps DEF RespondOtherTask
<1>3. ASSUME NEW i \in DOMAIN emitted, RespondDead(i) PROVE IInv'
  <2>1. Quiet(adapter, adapter')
    BY <1>1, <1>3 DEF RespondDead
  <2>2. pipe' \in [open : BOOLEAN, alive : BOOLEAN]
    BY <1>1, <1>3 DEF RespondDead
  <2>. QED
    BY <1>3, <2>1, <2>2, RefusedKeeps DEF RespondDead
<1>4. ASSUME NEW i \in DOMAIN emitted, RespondNotBlocked(i) PROVE IInv'
  BY <1>1, <1>4, RefusedKeeps DEF RespondNotBlocked
<1>5. ASSUME NEW i \in DOMAIN emitted, RespondWriteFails(i) PROVE IInv'
  <2>1. NoPending \in [id : Nat, offer : Offered]
    BY DEF NoPending, Offered
  <2>2. Quiet(adapter, adapter')
    BY <1>1, <1>5, <2>1 DEF RespondWriteFails, Quiet, Adapters
  <2>. QED
    BY <1>1, <1>5, <2>2, RefusedKeeps DEF RespondWriteFails
<1>. QED
  BY <1>2, <1>3, <1>4, <1>5, DeliveredKeeps DEF Respond

-----------------------------------------------------------------------------
(* The agent and its reader.                                               *)

(* A line that asks for nothing is on its way.                             *)
LEMMA LineKeeps ==
  ASSUME IInv, NEW line \in Lines, ~IsAsk(line), channel' = Append(channel, line),
         pipe' \in [open : BOOLEAN, alive : BOOLEAN],
         agent' \in [alive : BOOLEAN, owes : SUBSET Nat, turn : BOOLEAN,
                     asked : SUBSET Nat, updates : Nat],
         agent'.asked = agent.asked,
         UNCHANGED <<adapter, emitted, inbox, answers>>
  PROVE  IInv'
<1>1. channel \in Seq(Lines) /\ Rising(channel)
  BY DEF IInv, TypeOK, AsksShown
<1>2. channel' \in Seq(Lines) /\ AskIds(channel') = AskIds(channel) /\ Rising(channel')
  <2>1. channel' \in Seq(Lines)
    BY <1>1, AppendProperties
  <2>2. AskIds(channel') = AskIds(channel) \cup {} /\ Rising(channel')
    BY <1>1, AskAppend
  <2>. QED
    BY <2>1, <2>2
<1>3. TypeOK' /\ AskedInTurn'
  BY <1>2 DEF IInv, TypeOK, AskedInTurn
<1>4. AsksShown'
  BY <1>2 DEF IInv, AsksShown, Before
<1>5. AnsweredOnce' /\ AnsweredWereRead' /\ PendingIsOpen'
  BY <1>2 DEF IInv, AnsweredOnce, AnsweredWereRead, PendingIsOpen, Answered
<1>. QED
  BY <1>3, <1>4, <1>5 DEF IInv

LEMMA AgentRepliesKeeps == ASSUME IInv, AgentReplies PROVE IInv'
<1>0. PICK id \in agent.owes :
        /\ agent' = [agent EXCEPT !.owes = @ \ {id}, !.turn = @ /\ id # 3]
        /\ \E line \in {Result(id), Failure(id)}
                        \cup (IF id = 2 THEN {NoSession} ELSE {}) :
             channel' = Append(channel, line)
  BY DEF AgentReplies
<1>1. PICK line \in {Result(id), Failure(id)} \cup (IF id = 2 THEN {NoSession} ELSE {}) :
        channel' = Append(channel, line)
  BY <1>0
<1>2. id \in Nat
  BY DEF IInv, TypeOK
<1>3. line \in Lines /\ ~IsAsk(line)
  BY <1>1, <1>2 DEF Lines, Result, Failure, NoSession, IsAsk
<1>4. /\ agent'.asked = agent.asked
      /\ agent' \in [alive : BOOLEAN, owes : SUBSET Nat, turn : BOOLEAN,
                     asked : SUBSET Nat, updates : Nat]
  BY <1>0 DEF IInv, TypeOK
<1>. QED
  BY <1>1, <1>3, <1>4, LineKeeps
     DEF AgentReplies, AgentUnchanged, IInv, TypeOK

LEMMA AgentUpdatesKeeps == ASSUME IInv, AgentUpdates PROVE IInv'
<1>1. PICK kind \in {"text", "tool"} : channel' = Append(channel, Update(kind))
  BY DEF AgentUpdates
<1>2. Update(kind) \in Lines /\ ~IsAsk(Update(kind))
  BY DEF Lines, Update, IsAsk
<1>3. /\ agent'.asked = agent.asked
      /\ agent' \in [alive : BOOLEAN, owes : SUBSET Nat, turn : BOOLEAN,
                     asked : SUBSET Nat, updates : Nat]
  <2>1. agent' = [agent EXCEPT !.updates = agent.updates + 1]
    BY DEF AgentUpdates
  <2>2. agent.updates + 1 \in Nat
    BY DEF IInv, TypeOK
  <2>. QED
    BY <2>1, <2>2 DEF IInv, TypeOK
<1>. QED
  BY <1>1, <1>2, <1>3, LineKeeps
     DEF AgentUpdates, AgentUnchanged, IInv, TypeOK

LEMMA ReaderEndsKeeps == ASSUME IInv, ReaderEnds PROVE IInv'
<1>1. Eof \in Lines /\ ~IsAsk(Eof)
  BY DEF Lines, Eof, IsAsk
<1>2. pipe' \in [open : BOOLEAN, alive : BOOLEAN]
  BY DEF ReaderEnds, IInv, TypeOK
<1>. QED
  BY <1>1, <1>2, LineKeeps DEF ReaderEnds, IInv, TypeOK

(* The agent's next permission has a number above all others.              *)
LEMMA AgentAsksKeeps == ASSUME IInv, AgentAsks PROVE IInv'
<1>1. PICK n \in Nat : agent.asked = 101..(100 + n)
  BY DEF IInv, AskedInTurn
<1>2. Cardinality(agent.asked) = n
  <2>1. PICK a \in Int, b \in Int : a = 101 /\ b = 100 + n
    OBVIOUS
  <2>2. Cardinality(a..b) = IF a > b THEN 0 ELSE b - a + 1
    BY FS_Interval
  <2>. QED
    BY <1>1, <2>1, <2>2
<1>3. PICK id \in Nat : id = 100 + n + 1
  OBVIOUS
<1>4. PICK offer \in Offers : channel' = Append(channel, Permission(id, offer))
  BY <1>2, <1>3 DEF AgentAsks
<1>5. PICK line \in Lines : line = Permission(id, offer)
  BY DEF Lines, Permission
<1>6. IsAsk(line) /\ line.id = id
  BY <1>5 DEF IsAsk, Permission
<1>7. agent' = [agent EXCEPT !.asked = agent.asked \cup {id}]
  BY <1>2, <1>3 DEF AgentAsks
<1>8. /\ agent'.asked = agent.asked \cup {id}
      /\ agent' \in [alive : BOOLEAN, owes : SUBSET Nat, turn : BOOLEAN,
                     asked : SUBSET Nat, updates : Nat]
  BY <1>7 DEF IInv, TypeOK
<1>9. \A x \in agent.asked : x < id
  BY <1>1, <1>3
<1>10. UNCHANGED <<adapter, emitted, pipe, inbox, answers>>
  BY DEF AgentAsks, AgentUnchanged
<1>11. /\ channel' \in Seq(Lines) /\ AskIds(channel') = AskIds(channel) \cup {id}
       /\ Rising(channel')
  <2>1. channel \in Seq(Lines) /\ Rising(channel) /\ \A x \in AskIds(channel) : x < id
    BY <1>9 DEF IInv, TypeOK, AsksShown
  <2>. QED
    BY <1>4, <1>5, <1>6, <2>1, AskAppend, AppendProperties
<1>12. TypeOK'
  BY <1>8, <1>10, <1>11 DEF IInv, TypeOK
<1>13. AskedInTurn'
  <2>1. agent'.asked = 101..(100 + (n + 1))
    BY <1>1, <1>3, <1>8
  <2>. QED
    BY <2>1 DEF AskedInTurn
<1>14. AsksShown'
  BY <1>8, <1>9, <1>10, <1>11 DEF IInv, AsksShown, Before
<1>15. AnsweredOnce' /\ AnsweredWereRead' /\ PendingIsOpen'
  <2>1. id \notin agent.asked
    BY <1>9
  <2>2. AnsweredOnce'
    BY <1>8, <1>10 DEF IInv, AnsweredOnce
  <2>3. AnsweredWereRead'
    BY <1>8, <1>10, <1>11, <2>1 DEF IInv, AnsweredWereRead, Answered
  <2>4. PendingIsOpen'
    BY <1>8, <1>10, <1>11, <2>1 DEF IInv, PendingIsOpen, Answered
  <2>. QED
    BY <2>2, <2>3, <2>4
<1>. QED
  BY <1>12, <1>13, <1>14, <1>15 DEF IInv

(* Reading and dying leave the channel and the permissions alone.          *)
LEMMA AgentQuietly == ASSUME IInv, AgentReads \/ AgentDies PROVE IInv'
<1>1. UNCHANGED <<adapter, emitted, channel, pipe, answers>>
  BY DEF AgentReads, AgentDies, AgentUnchanged
<1>2. inbox' \in Seq(Replies)
  <2>1. inbox \in Seq(Replies)
    BY DEF IInv, TypeOK
  <2>2. inbox # <<>> => Tail(inbox) \in Seq(Replies)
    BY <2>1, HeadTailProperties
  <2>. QED
    BY <2>1, <2>2 DEF AgentReads, AgentDies
<1>3. /\ agent'.asked = agent.asked
      /\ agent' \in [alive : BOOLEAN, owes : SUBSET Nat, turn : BOOLEAN,
                     asked : SUBSET Nat, updates : Nat]
  <2>1. CASE AgentDies
    BY <2>1 DEF AgentDies, IInv, TypeOK
  <2>2. CASE AgentReads
    <3>1. Head(inbox) \in Replies
      BY <2>2 DEF AgentReads, IInv, TypeOK
    <3>2. Head(inbox).id \in Nat
      BY <3>1 DEF Replies
    <3>. QED
      BY <2>2, <3>2 DEF AgentReads, IInv, TypeOK
  <2>. QED
    BY <2>1, <2>2
<1>4. TypeOK' /\ AskedInTurn'
  BY <1>1, <1>2, <1>3 DEF IInv, TypeOK, AskedInTurn
<1>5. AsksShown' /\ AnsweredOnce' /\ AnsweredWereRead' /\ PendingIsOpen'
  BY <1>1, <1>3
     DEF IInv, AsksShown, AnsweredOnce, AnsweredWereRead, PendingIsOpen, Answered
<1>. QED
  BY <1>4, <1>5 DEF IInv

-----------------------------------------------------------------------------
LEMMA AcpInductive == Spec => []IInv
<1>1. IInv /\ [Next]_vars => IInv'
  <2>. SUFFICES ASSUME IInv, [Next]_vars PROVE IInv'
    OBVIOUS
  <2>1. CASE Poll
    BY <2>1, PollStartsKeeps, PollReadsKeeps, PollEndsKeeps DEF Poll
  <2>2. CASE UNCHANGED vars
    BY <2>2 DEF vars, IInv, TypeOK, AskedInTurn, AsksShown, AnsweredOnce,
                AnsweredWereRead, PendingIsOpen, Answered
  <2>. QED
    BY <2>1, <2>2, RespondKeeps, AgentRepliesKeeps, AgentAsksKeeps,
       AgentUpdatesKeeps, AgentQuietly, ReaderEndsKeeps DEF Next
<1>. QED
  BY <1>1, InitHolds, PTL DEF Spec

(* Every permission the agent asks for comes to the owner, once and in the *)
(* order asked, whatever the adapter is doing (acp.rs poll).               *)
THEOREM EveryAskIsShown == Spec => []AsksShown
BY AcpInductive, PTL DEF IInv

(* The agent gets at most one answer to a permission, and none to one that *)
(* it did not ask for (acp.rs respond).                                    *)
THEOREM EachAskAnsweredOnce == Spec => []AnsweredOnce
BY AcpInductive, PTL DEF IInv

-----------------------------------------------------------------------------
(* What a decision selects.                                                *)

LEMMA LeastOf ==
  ASSUME NEW S, S \subseteq Nat, S # {}
  PROVE  \E n \in S : \A m \in S : n <= m
<1>1. PICK R : R = OpToRel(<, Nat)
  OBVIOUS
<1>2. IsWellFoundedOn(R, Nat)
  BY <1>1, NatLessThanWellFounded
<1>3. PICK n \in S : \A m \in S : ~(<<m, n>> \in R)
  BY <1>2, WFMin
<1>4. \A m \in Nat, k \in Nat : m < k => <<m, k>> \in R
  BY <1>1 DEF OpToRel
<1>5. ASSUME NEW m \in S PROVE n <= m
  <2>1. m \in Nat /\ n \in Nat
    OBVIOUS
  <2>2. ~(m < n)
    BY <1>3, <1>4, <2>1
  <2>. QED
    BY <2>1, <2>2
<1>. QED
  BY <1>5

(* The first option that passes is one that passes, and there is one if any*)
(* does.                                                                   *)
LEMMA FirstAllowing ==
  ASSUME NEW offer \in Seq([kind : Kinds, words : SUBSET Words]),
         NEW i, i = FirstSuch(offer, Allows)
  PROVE  /\ i = 0 \/ (i \in DOMAIN offer /\ i > 0 /\ Allows(offer[i]))
         /\ i = 0 => ~ \E j \in DOMAIN offer : Allows(offer[j])
<1>. DEFINE found == {j \in DOMAIN offer : Allows(offer[j])}
<1>1. i = IF found = {} THEN 0 ELSE CHOOSE n \in found : \A m \in found : n <= m
  BY DEF FirstSuch
<1>2. CASE found # {}
  <2>1. found \subseteq Nat
    OBVIOUS
  <2>. HIDE DEF found
  <2>2. \E n \in found : \A m \in found : n <= m
    BY <1>2, <2>1, LeastOf
  <2>3. i \in found
    BY <1>1, <1>2, <2>2
  <2>4. \A j \in found : j \in DOMAIN offer /\ Allows(offer[j])
    BY DEF found
  <2>5. i \in DOMAIN offer /\ Allows(offer[i])
    BY <2>3, <2>4
  <2>6. i > 0
    BY <2>5
  <2>7. i # 0
    BY <2>6
  <2>. QED
    BY <2>5, <2>6, <2>7
<1>3. CASE found = {}
  BY <1>1, <1>3
<1>. QED
  BY <1>2, <1>3

LEMMA FirstRejecting ==
  ASSUME NEW offer \in Seq([kind : Kinds, words : SUBSET Words]),
         NEW i, i = FirstSuch(offer, Rejects)
  PROVE  /\ i = 0 \/ (i \in DOMAIN offer /\ i > 0 /\ Rejects(offer[i]))
         /\ i = 0 => ~ \E j \in DOMAIN offer : Rejects(offer[j])
<1>. DEFINE found == {j \in DOMAIN offer : Rejects(offer[j])}
<1>1. i = IF found = {} THEN 0 ELSE CHOOSE n \in found : \A m \in found : n <= m
  BY DEF FirstSuch
<1>2. CASE found # {}
  <2>1. found \subseteq Nat
    OBVIOUS
  <2>. HIDE DEF found
  <2>2. \E n \in found : \A m \in found : n <= m
    BY <1>2, <2>1, LeastOf
  <2>3. i \in found
    BY <1>1, <1>2, <2>2
  <2>4. \A j \in found : j \in DOMAIN offer /\ Rejects(offer[j])
    BY DEF found
  <2>5. i \in DOMAIN offer /\ Rejects(offer[i])
    BY <2>3, <2>4
  <2>6. i > 0
    BY <2>5
  <2>7. i # 0
    BY <2>6
  <2>. QED
    BY <2>5, <2>6, <2>7
<1>3. CASE found = {}
  BY <1>1, <1>3
<1>. QED
  BY <1>2, <1>3

(* The words of an option do not contradict the kind it declares.          *)
Agrees(option) ==
  /\ option.kind = "allow" => "reject" \notin option.words
  /\ option.kind = "reject" => "allow" \notin option.words

OffersAgree == \A offer \in Offers : \A i \in DOMAIN offer : Agrees(offer[i])

LEMMA SelectionMeansIt ==
  ASSUME OffersAgree, NEW offer \in Offered
  PROVE  /\ Selected("Deny", offer).kind # "allow"
         /\ (\E j \in DOMAIN offer : Allows(offer[j]))
              => Selected("Approve", offer).kind # "reject"
<1>1. offer \in Seq([kind : Kinds, words : SUBSET Words])
  <2>1. offer \in Offers => offer \in Seq([kind : Kinds, words : SUBSET Words])
    BY AcpAssumption
  <2>2. <<>> \in Seq([kind : Kinds, words : SUBSET Words])
    BY EmptySeq
  <2>. QED
    BY <2>1, <2>2 DEF Offered
<1>2. \A i \in DOMAIN offer : Agrees(offer[i])
  BY DEF OffersAgree, Offered
<1>3. Selected("Deny", offer).kind # "allow"
  <2>1. PICK i : i = FirstSuch(offer, Rejects)
    OBVIOUS
  <2>2. Selected("Deny", offer) = IF i > 0 THEN offer[i] ELSE Cancelled
    BY <2>1 DEF Selected, Denial
  <2>3. i = 0 \/ (i \in DOMAIN offer /\ i > 0 /\ Rejects(offer[i]))
    BY <1>1, <2>1, FirstRejecting
  <2>. QED
    BY <1>2, <2>2, <2>3 DEF Cancelled, Rejects, Agrees
<1>4. ASSUME \E j \in DOMAIN offer : Allows(offer[j])
      PROVE  Selected("Approve", offer).kind # "reject"
  <2>1. PICK i : i = FirstSuch(offer, Allows)
    OBVIOUS
  <2>2. i \in DOMAIN offer /\ i > 0 /\ Allows(offer[i])
    BY <1>1, <1>4, <2>1, FirstAllowing
  <2>3. Selected("Approve", offer) = offer[i]
    BY <2>1, <2>2 DEF Selected, Approval
  <2>. QED
    BY <1>2, <2>2, <2>3 DEF Allows, Agrees
<1>. QED
  BY <1>3, <1>4

(* As long as no option an agent offers is named against the kind it       *)
(* declares, a denial never selects one that allows, and an approval one   *)
(* that rejects only if nothing else is offered (acp.rs respond).          *)
THEOREM DecisionsMeanThemselves == ASSUME OffersAgree PROVE Spec => []DecisionMeansItself
<1>1. IInv => DecisionMeansItself
  <2>. SUFFICES ASSUME IInv, NEW i \in DOMAIN answers
                PROVE  LET a == answers[i] IN
                       /\ a.decision = "Deny" => a.option.kind # "allow"
                       /\ (a.decision = "Approve"
                             /\ \E j \in DOMAIN a.offer : Allows(a.offer[j]))
                            => a.option.kind # "reject"
    BY DEF DecisionMeansItself
  <2>1. answers[i] \in Settled
    BY DEF IInv, TypeOK
  <2>2. PICK d \in {"Approve", "Deny"}, o \in Offered :
          /\ answers[i].decision = d /\ answers[i].offer = o
          /\ answers[i].option = Selected(d, o)
    BY <2>1 DEF Settled
  <2>. QED
    BY <2>2, SelectionMeansIt
<1>. QED
  BY <1>1, AcpInductive, PTL

=============================================================================
