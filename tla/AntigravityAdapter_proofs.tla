--------------------- MODULE AntigravityAdapter_proofs ----------------------
(***************************************************************************)
(* Theorems about the adapter of Antigravity, for any dialogs, spinner     *)
(* lines, answers and bounds: no number is lost, repeated or overtaken,    *)
(* and a dialog the adapter has read is left unannounced in three ways     *)
(* only.                                                                   *)
(*                                                                         *)
(* The argument for the numbers: every stage of a poll either leaves the   *)
(* events alone or appends one with the next number (Counted).  For the    *)
(* dialogs: what the poll compares with, the pending request and the last  *)
(* answer disagree only after a write-in was typed past a pending request, *)
(* and then the last answer is the entry it was typed into (Recalled).     *)
(***************************************************************************)
EXTENDS AntigravityAdapter, SequenceTheorems, TLAPS

-----------------------------------------------------------------------------
(* The fields.                                                             *)

AgentKinds == {"started", "approval_required", "input_required", "progress",
               "task_completed", "command_failed", "adapter_error"}

Told == [kind : AgentKinds, seq : Nat]

Requests == [generation : Nat, seq : Nat, screen : Dialogs]

Answers == [screen : Dialogs, over : BOOLEAN, opens : BOOLEAN]

Fields == {"life", "work", "seq", "generation", "screen", "current", "pending",
           "outcome", "consumed", "writeIn", "prompted", "buffer", "out", "typed"}

IsAdapter(a) ==
  /\ DOMAIN a = Fields
  /\ a.seq \in Nat /\ a.generation \in Nat
  /\ a.out \in Seq(Told) /\ a.buffer \in Seq(Told)
  /\ a.screen \in Screens /\ a.current \in Screens \cup {Working("prompt")}
  /\ a.pending \in {None} \cup Requests
  /\ a.consumed \in {None} \cup Answers

(* Counted: the events a call has emitted so far are numbered from first.  *)
Counted(a, first) ==
  /\ first \in Nat /\ a.buffer = <<>>
  /\ a.seq = first + Len(a.out)
  /\ \A i \in 1..Len(a.out) : a.out[i].seq = first + i

(* A stage of a call.                                                      *)
Follows(a, b) ==
  IsAdapter(b) /\ \A first : Counted(a, first) => Counted(b, first)

EventsKept(a, b) ==
  /\ DOMAIN b = Fields /\ b.seq = a.seq /\ b.generation = a.generation
  /\ b.out = a.out /\ b.buffer = a.buffer

DialogKept(a, b) ==
  /\ b.screen = a.screen /\ b.current = a.current
  /\ b.pending = a.pending /\ b.consumed = a.consumed

LEMMA DialogScreen ==
  ASSUME NEW s \in Screens \cup {Working("prompt")}, IsBlocking(s)
  PROVE  s \in Dialogs
BY DEF Screens, Working, Plain, IsBlocking

LEMMA NotNone ==
  /\ \A p \in Requests : p # None
  /\ \A k \in Answers : k # None
BY NoneAssumption DEF Requests, Answers

LEMMA KeptFollows ==
  ASSUME NEW a, IsAdapter(a), NEW b, EventsKept(a, b), DialogKept(a, b)
  PROVE  Follows(a, b)
BY DEF EventsKept, DialogKept, Follows, IsAdapter, Counted

LEMMA FollowsOn ==
  ASSUME NEW a, NEW b, NEW c, Follows(a, b), Follows(b, c)
  PROVE  Follows(a, c)
BY DEF Follows

LEMMA EmitFollows ==
  ASSUME NEW a, IsAdapter(a), NEW kind \in AgentKinds
  PROVE  LET b == Emit(a, kind) IN
         /\ Follows(a, b) /\ DialogKept(a, b) /\ b.life = a.life
<1>1. PICK n \in Nat : n = a.seq + 1
  BY DEF IsAdapter
<1>2. PICK e \in Told : e = [kind |-> kind, seq |-> n]
  BY DEF Told
<1>3. PICK o \in Seq(Told) : o = Append(a.out, e)
  BY AppendProperties DEF IsAdapter
<1>4. PICK b : b = Emit(a, kind)
  OBVIOUS
<1>5. b = [a EXCEPT !.seq = n, !.out = o]
  BY <1>1, <1>2, <1>3, <1>4 DEF Emit, IsAdapter, Fields
<1>6. /\ DOMAIN b = Fields /\ b.seq = n /\ b.generation = a.generation
      /\ b.out = o /\ b.buffer = a.buffer /\ DialogKept(a, b)
      /\ b.life = a.life
  BY <1>5 DEF IsAdapter, Fields, DialogKept
<1>7. IsAdapter(b)
  BY <1>6 DEF IsAdapter, DialogKept
<1>8. ASSUME NEW first, Counted(a, first) PROVE Counted(b, first)
  <2>1. PICK m \in Nat : m = Len(a.out)
    BY DEF IsAdapter
  <2>2. /\ Len(o) = m + 1 /\ o[m + 1] = e
        /\ \A i \in 1..m : o[i] = a.out[i]
    BY <1>3, <2>1, AppendProperties DEF IsAdapter
  <2>3. first \in Nat /\ n = first + (m + 1)
    BY <1>1, <1>8, <2>1 DEF Counted
  <2>4. ASSUME NEW i \in 1..(m + 1) PROVE o[i].seq = first + i
    <3>1. CASE i = m + 1
      BY <1>2, <2>2, <2>3, <3>1
    <3>2. CASE i # m + 1
      <4>1. i \in 1..m
        BY <3>2
      <4>. QED
        BY <1>8, <2>1, <2>2, <4>1 DEF Counted
    <3>. QED
      BY <3>1, <3>2
  <2>. QED
    BY <1>6, <1>8, <2>2, <2>3, <2>4 DEF Counted
<1>. QED
  BY <1>4, <1>6, <1>7, <1>8 DEF Follows

LEMMA AtFollows ==
  ASSUME NEW a, IsAdapter(a), NEW life, NEW work
  PROVE  /\ Follows(a, At(a, life)) /\ DialogKept(a, At(a, life))
         /\ At(a, life).life = life
         /\ Follows(a, Busy(a, work)) /\ DialogKept(a, Busy(a, work))
         /\ Busy(a, work).life = "Working"
<1>1. /\ EventsKept(a, At(a, life)) /\ DialogKept(a, At(a, life))
      /\ At(a, life).life = life
  BY DEF At, IsAdapter, Fields, EventsKept, DialogKept
<1>2. /\ EventsKept(a, Busy(a, work)) /\ DialogKept(a, Busy(a, work))
      /\ Busy(a, work).life = "Working"
  BY DEF Busy, IsAdapter, Fields, EventsKept, DialogKept
<1>. QED
  BY <1>1, <1>2, KeptFollows

LEMMA FieldFollows ==
  ASSUME NEW a, IsAdapter(a), NEW x
  PROVE  LET b == [a EXCEPT !.writeIn = x]
             c == [a EXCEPT !.prompted = x] IN
         /\ Follows(a, a) /\ DialogKept(a, a)
         /\ Follows(a, b) /\ DialogKept(a, b) /\ b.life = a.life
         /\ Follows(a, c) /\ DialogKept(a, c) /\ c.life = a.life
<1>1. EventsKept(a, a) /\ DialogKept(a, a)
  BY DEF IsAdapter, EventsKept, DialogKept
<1>2. PICK b : b = [a EXCEPT !.writeIn = x]
  OBVIOUS
<1>3. EventsKept(a, b) /\ DialogKept(a, b) /\ b.life = a.life
  BY <1>2 DEF IsAdapter, Fields, EventsKept, DialogKept
<1>4. PICK c : c = [a EXCEPT !.prompted = x]
  OBVIOUS
<1>5. EventsKept(a, c) /\ DialogKept(a, c) /\ c.life = a.life
  BY <1>4 DEF IsAdapter, Fields, EventsKept, DialogKept
<1>. QED
  BY <1>1, <1>2, <1>3, <1>4, <1>5, KeptFollows

LEMMA ScreenFollows ==
  ASSUME NEW a, IsAdapter(a), NEW s \in Screens
  PROVE  LET b == [a EXCEPT !.screen = s]
             c == [a EXCEPT !.current = s] IN
         /\ Follows(a, b) /\ b.screen = s /\ b.current = a.current
         /\ b.pending = a.pending /\ b.consumed = a.consumed
         /\ b.life = a.life /\ b.writeIn = a.writeIn
         /\ Follows(a, c) /\ c.screen = a.screen /\ c.current = s
         /\ c.pending = a.pending /\ c.consumed = a.consumed
         /\ c.life = a.life /\ c.writeIn = a.writeIn
<1>1. PICK b : b = [a EXCEPT !.screen = s]
  OBVIOUS
<1>2. /\ EventsKept(a, b) /\ b.screen = s /\ b.current = a.current
      /\ b.pending = a.pending /\ b.consumed = a.consumed
      /\ b.life = a.life /\ b.writeIn = a.writeIn
  BY <1>1 DEF IsAdapter, Fields, EventsKept
<1>3. PICK c : c = [a EXCEPT !.current = s]
  OBVIOUS
<1>4. /\ EventsKept(a, c) /\ c.screen = a.screen /\ c.current = s
      /\ c.pending = a.pending /\ c.consumed = a.consumed
      /\ c.life = a.life /\ c.writeIn = a.writeIn
  BY <1>3 DEF IsAdapter, Fields, EventsKept
<1>5. Follows(a, b) /\ Follows(a, c)
  BY <1>2, <1>4 DEF EventsKept, Follows, IsAdapter, Counted
<1>. QED
  BY <1>1, <1>2, <1>3, <1>4, <1>5

LEMMA ExpireFollows ==
  ASSUME NEW a, IsAdapter(a)
  PROVE  LET b == ExpirePending(a) IN
         /\ Follows(a, b) /\ b.pending = None /\ b.screen = a.screen
         /\ b.current = a.current /\ b.consumed = a.consumed
         /\ b.life = a.life /\ b.seq = a.seq
<1>1. CASE a.pending = None
  BY <1>1, FieldFollows DEF ExpirePending
<1>2. CASE a.pending # None
  <2>1. PICK b : b = [a EXCEPT !.pending = None, !.outcome = "Expired"]
    OBVIOUS
  <2>2. /\ EventsKept(a, b) /\ b.pending = None /\ b.screen = a.screen
        /\ b.current = a.current /\ b.consumed = a.consumed
        /\ b.life = a.life
    BY <2>1 DEF IsAdapter, Fields, EventsKept
  <2>3. Follows(a, b)
    BY <2>2 DEF EventsKept, Follows, IsAdapter, Counted
  <2>. QED
    BY <1>2, <2>1, <2>2, <2>3 DEF ExpirePending, EventsKept
<1>. QED
  BY <1>1, <1>2

-----------------------------------------------------------------------------
(* A dialog is on the screen.                                              *)

(* The pending request goes on, an answer is still taking effect, or a     *)
(* request is opened.                                                      *)
Opened(a, b, s) ==
  /\ b.screen = a.screen /\ b.current = a.current
  /\ \/ /\ a.pending # None /\ b.pending # None
        /\ b.pending.screen = s /\ b.consumed = a.consumed
        /\ b.life = "Blocked"
     \/ /\ InGrace(a, s) /\ b.pending = a.pending
        /\ b.consumed = a.consumed /\ b.life = a.life
     \/ /\ b.pending # None /\ b.pending.screen = s /\ b.consumed = None
        /\ b.life = "Blocked"

LEMMA OpenFollows ==
  ASSUME NEW a, IsAdapter(a), NEW s \in Dialogs
  PROVE  Follows(a, OpenRequest(a, s)) /\ Opened(a, OpenRequest(a, s), s)
<1>1. CASE a.pending # None /\ SameRequest(a.pending.screen, s)
  <2>1. PICK p : p = [a.pending EXCEPT !.screen = s]
    OBVIOUS
  <2>2. PICK b : b = [a EXCEPT !.pending = p]
    OBVIOUS
  <2>3. p \in Requests /\ p.screen = s
    BY <1>1, <2>1 DEF IsAdapter, Requests
  <2>4. /\ EventsKept(a, b) /\ b.screen = a.screen /\ b.current = a.current
        /\ b.pending = p /\ b.consumed = a.consumed
    BY <2>2 DEF IsAdapter, Fields, EventsKept
  <2>5. Follows(a, b)
    BY <2>3, <2>4 DEF EventsKept, Follows, IsAdapter, Counted
  <2>6. PICK c : c = At(b, "Blocked")
    OBVIOUS
  <2>7. Follows(a, c) /\ DialogKept(b, c) /\ c.life = "Blocked"
    BY <2>5, <2>6, AtFollows, FollowsOn DEF Follows
  <2>8. b = [a EXCEPT !.pending.screen = s]
    BY <2>1, <2>2
  <2>9. OpenRequest(a, s) = c
    BY <1>1, <2>6, <2>8 DEF OpenRequest
  <2>10. Opened(a, c, s)
    BY <1>1, <2>3, <2>4, <2>7, NotNone DEF Opened, DialogKept
  <2>. QED
    BY <2>7, <2>9, <2>10
<1>2. CASE ~(a.pending # None /\ SameRequest(a.pending.screen, s))
           /\ InGrace(a, s)
  BY <1>2, FieldFollows DEF OpenRequest, Opened
<1>3. CASE ~(a.pending # None /\ SameRequest(a.pending.screen, s))
           /\ ~InGrace(a, s)
  <2>1. PICK b : b = [a EXCEPT !.consumed = None]
    OBVIOUS
  <2>2. /\ EventsKept(a, b) /\ b.screen = a.screen /\ b.current = a.current
        /\ b.pending = a.pending /\ b.consumed = None
    BY <2>1 DEF IsAdapter, Fields, EventsKept
  <2>3. Follows(a, b)
    BY <2>2 DEF EventsKept, Follows, IsAdapter, Counted
  <2>4. PICK c : c = ExpirePending(b)
    OBVIOUS
  <2>5. /\ Follows(a, c) /\ c.screen = a.screen /\ c.current = a.current
        /\ c.consumed = None
    BY <2>2, <2>3, <2>4, ExpireFollows, FollowsOn DEF Follows
  <2>6. PICK d : d = At(c, "Blocked")
    OBVIOUS
  <2>7. Follows(a, d) /\ DialogKept(c, d) /\ d.life = "Blocked"
    BY <2>5, <2>6, AtFollows, FollowsOn DEF Follows
  <2>8. PICK kind \in AgentKinds : kind = RequestKind(s)
    BY DEF AgentKinds, RequestKind
  <2>9. PICK e : e = Emit(d, kind)
    OBVIOUS
  <2>10. Follows(a, e) /\ DialogKept(d, e) /\ e.life = "Blocked"
    BY <2>7, <2>8, <2>9, EmitFollows, FollowsOn DEF Follows
  <2>11. PICK p : p = [generation |-> e.generation + 1, seq |-> e.seq,
                       screen |-> s]
    OBVIOUS
  <2>12. PICK f : f = [e EXCEPT !.generation = e.generation + 1, !.pending = p]
    OBVIOUS
  <2>13. IsAdapter(e) /\ e.generation + 1 \in Nat /\ e.seq \in Nat
    BY <2>10 DEF Follows, IsAdapter
  <2>14. /\ DOMAIN f = Fields /\ f.seq = e.seq /\ f.out = e.out
         /\ f.generation = e.generation + 1
         /\ f.buffer = e.buffer /\ f.pending = p /\ f.consumed = e.consumed
         /\ f.screen = e.screen /\ f.current = e.current /\ f.life = e.life
    BY <2>12, <2>13 DEF IsAdapter, Fields
  <2>15. p \in Requests /\ p.screen = s
    BY <2>11, <2>13 DEF Requests
  <2>16. Follows(e, f)
    BY <2>13, <2>14, <2>15 DEF Follows, IsAdapter, Counted
  <2>17. OpenRequest(a, s) = f
    <3>1. OpenRequest(a, s)
            = [e EXCEPT !.generation = @ + 1,
                        !.pending = [generation |-> e.generation + 1,
                                     seq |-> e.seq, screen |-> s]]
      BY <1>3, <2>1, <2>4, <2>6, <2>8, <2>9 DEF OpenRequest
    <3>. QED
      BY <2>11, <2>12, <3>1
  <2>18. Opened(a, f, s)
    BY <2>5, <2>7, <2>10, <2>14, <2>15, NotNone DEF Opened, DialogKept
  <2>. QED
    BY <2>10, <2>16, <2>17, <2>18, FollowsOn
<1>. QED
  BY <1>1, <1>2, <1>3

(* What is left of a write-in.                                             *)
LEMMA WriteInDropped ==
  ASSUME NEW a, IsAdapter(a), NEW s
  PROVE  /\ Follows(a, DropWriteIn(a, s)) /\ DialogKept(a, DropWriteIn(a, s))
         /\ DropWriteIn(a, s).life = a.life
         /\ Follows(a, ForgetLateWriteIn(a))
         /\ DialogKept(a, ForgetLateWriteIn(a))
         /\ ForgetLateWriteIn(a).life = a.life
BY FieldFollows DEF DropWriteIn, ForgetLateWriteIn

LEMMA WriteInCompleted ==
  ASSUME NEW a, IsAdapter(a), NEW s \in Dialogs, NEW sent \in BOOLEAN
  PROVE  LET b == CompleteWriteIn(a, s, sent) IN
         /\ Follows(a, b) /\ b.screen = a.screen /\ b.current = a.current
         /\ b.pending = a.pending
         /\ sent => /\ b.consumed # None /\ b.consumed.screen = s
                    /\ b.life = "Working"
<1>1. PICK b : b = [a EXCEPT !.writeIn = None]
  OBVIOUS
<1>2. Follows(a, b) /\ DialogKept(a, b) /\ IsAdapter(b)
  BY <1>1, FieldFollows DEF Follows
<1>3. PICK k \in Answers : k = [screen |-> s, over |-> FALSE, opens |-> FALSE]
  BY DEF Answers
<1>4. PICK c : c = [b EXCEPT !.consumed = k,
                             !.typed = [what |-> "text", seq |-> 0,
                                        into |-> s]]
  OBVIOUS
<1>5. /\ EventsKept(b, c) /\ c.screen = b.screen /\ c.current = b.current
      /\ c.pending = b.pending /\ c.consumed = k
  BY <1>2, <1>4 DEF IsAdapter, Fields, EventsKept
<1>6. Follows(b, c) /\ IsAdapter(c)
  BY <1>2, <1>5 DEF EventsKept, Follows, IsAdapter, Counted
<1>7. /\ Follows(a, At(b, "Exited")) /\ DialogKept(b, At(b, "Exited"))
      /\ Follows(a, Busy(c, "write_in")) /\ DialogKept(c, Busy(c, "write_in"))
      /\ Busy(c, "write_in").life = "Working"
  BY <1>2, <1>6, AtFollows, FollowsOn
<1>8. CompleteWriteIn(a, s, sent)
        = IF ~sent THEN At(b, "Exited") ELSE Busy(c, "write_in")
  BY <1>1, <1>3, <1>4 DEF CompleteWriteIn
<1>9. k # None /\ k.screen = s
  BY <1>3, NotNone
<1>10. CASE sent
  BY <1>2, <1>5, <1>7, <1>8, <1>9, <1>10 DEF DialogKept
<1>11. CASE ~sent
  BY <1>2, <1>7, <1>8, <1>11 DEF DialogKept
<1>. QED
  BY <1>10, <1>11

-----------------------------------------------------------------------------
(* The stages of a poll.                                                   *)

(* A screen that was not the last one.                                     *)
Moved(a, b, s) ==
  /\ b.screen = a.screen /\ b.current = a.current
  /\ IF IsBlocking(s)
     THEN \/ /\ s.kind = "Entry" /\ b.pending = a.pending
             /\ b.consumed # None /\ b.consumed.screen = s
             /\ b.life = "Working"
          \/ Opened(a, b, s)
     ELSE b.pending = None

LEMMA FinishFollows ==
  ASSUME NEW a, IsAdapter(a), NEW evidence
  PROVE  Follows(a, Finish(a, evidence)) /\ DialogKept(a, Finish(a, evidence))
<1>. PICK b : b = [a EXCEPT !.prompted = FALSE]
  OBVIOUS
<1>1. Follows(a, b) /\ DialogKept(a, b) /\ IsAdapter(b)
  BY FieldFollows DEF Follows
<1>. PICK c : c = At(b, "Running")
  OBVIOUS
<1>2. Follows(a, c) /\ DialogKept(b, c) /\ IsAdapter(c)
  BY <1>1, AtFollows, FollowsOn DEF Follows
<1>. PICK d : d = Emit(c, "task_completed")
  OBVIOUS
<1>3. Follows(a, d) /\ DialogKept(c, d)
  BY <1>2, EmitFollows, FollowsOn DEF AgentKinds
<1>. QED
  BY <1>1, <1>2, <1>3 DEF Finish, DialogKept

LEMMA BlockingFollows ==
  ASSUME NEW a, IsAdapter(a), NEW s \in Screens, IsBlocking(s),
         NEW evidence, NEW sent \in BOOLEAN
  PROVE  LET b == HandleTransition(a, s, evidence, sent) IN
         Follows(a, b) /\ (sent => Moved(a, b, s))
<1>1. s \in Dialogs
  BY DialogScreen
<1>2. CASE EntryReady(a, s)
  <2>1. PICK b : b = CompleteWriteIn(a, s, sent)
    OBVIOUS
  <2>2. b = HandleTransition(a, s, evidence, sent)
    BY <1>2, <2>1 DEF HandleTransition
  <2>3. /\ Follows(a, b) /\ b.screen = a.screen /\ b.current = a.current
        /\ b.pending = a.pending
        /\ sent => /\ b.consumed # None /\ b.consumed.screen = s
                   /\ b.life = "Working"
    BY <1>1, <2>1, WriteInCompleted
  <2>4. s.kind = "Entry"
    BY <1>2 DEF EntryReady
  <2>. QED
    BY <2>2, <2>3, <2>4 DEF Moved
<1>3. CASE ~EntryReady(a, s)
  <2>1. PICK c : c = DropWriteIn(a, s)
    OBVIOUS
  <2>2. Follows(a, c) /\ IsAdapter(c) /\ DialogKept(a, c) /\ c.life = a.life
    BY <2>1, WriteInDropped DEF Follows
  <2>3. PICK b : b = OpenRequest(c, s)
    OBVIOUS
  <2>4. Follows(a, b) /\ Opened(c, b, s)
    BY <1>1, <2>2, <2>3, OpenFollows, FollowsOn
  <2>5. Opened(a, b, s)
    BY <2>2, <2>4 DEF Opened, DialogKept, InGrace
  <2>6. b = HandleTransition(a, s, evidence, sent)
    BY <1>3, <2>1, <2>3 DEF HandleTransition
  <2>. QED
    BY <2>4, <2>5, <2>6 DEF Moved, Opened
<1>. QED
  BY <1>2, <1>3

LEMMA NotBlockingFollows ==
  ASSUME NEW a, IsAdapter(a), NEW s \in Screens, ~IsBlocking(s),
         NEW evidence, NEW sent \in BOOLEAN
  PROVE  LET b == HandleTransition(a, s, evidence, sent) IN
         Follows(a, b) /\ Moved(a, b, s)
<1>. DEFINE Done(b) == /\ Follows(a, b) /\ IsAdapter(b) /\ b.pending = None
                       /\ b.screen = a.screen /\ b.current = a.current
<1>1. PICK b : b = ExpirePending(a)
  OBVIOUS
<1>2. PICK c : c = [b EXCEPT !.writeIn = None]
  OBVIOUS
<1>3. Done(b)
  BY <1>1, ExpireFollows DEF Follows
<1>4. ASSUME NEW d, NEW e, Done(d), Follows(d, e), DialogKept(d, e)
      PROVE  Done(e)
  BY <1>4, FollowsOn DEF Follows, DialogKept
<1>5. Done(c)
  BY <1>2, <1>3, <1>4, FieldFollows
<1>6. /\ Done(Busy(b, s.id)) /\ Done(At(c, "Exited"))
      /\ Done(At(c, "Running"))
  BY <1>3, <1>4, <1>5, AtFollows
<1>7. /\ Done(Emit(Busy(b, s.id), "progress"))
      /\ Done(Emit(At(c, "Exited"), "command_failed"))
  <2>1. ASSUME NEW d, Done(d), NEW kind \in AgentKinds
        PROVE  Done(Emit(d, kind))
    <3>1. Follows(d, Emit(d, kind)) /\ DialogKept(d, Emit(d, kind))
      BY <2>1, EmitFollows
    <3>. QED
      BY <1>4, <2>1, <3>1
  <2>2. "progress" \in AgentKinds /\ "command_failed" \in AgentKinds
    BY DEF AgentKinds
  <2>. HIDE DEF Done
  <2>. QED
    BY <1>6, <2>1, <2>2
<1>8. Done(Finish(c, evidence))
  BY <1>4, <1>5, FinishFollows
<1>9. PICK r : r = HandleTransition(a, s, evidence, sent)
  OBVIOUS
<1>10. r \in {b, c, Emit(Busy(b, s.id), "progress"), Finish(c, evidence),
              At(c, "Running"), Emit(At(c, "Exited"), "command_failed")}
  <2>1. r = CASE s.kind = "Working" ->
                   IF b.life = "Working" /\ b.work = s.id THEN b
                   ELSE Emit(Busy(b, s.id), "progress")
              [] s.kind = "Completed" -> Finish(c, evidence)
              [] s.kind = "FatalError" ->
                   IF b.life = "Exited" THEN c
                   ELSE Emit(At(c, "Exited"), "command_failed")
              [] s.kind = "IdlePrompt" ->
                   IF b.life = "Working" \/ b.prompted THEN Finish(c, evidence)
                   ELSE At(c, "Running")
              [] OTHER -> b
    BY <1>1, <1>2, <1>9 DEF HandleTransition
  <2>. QED
    BY <2>1
<1>11. Done(r)
  BY <1>3, <1>5, <1>6, <1>7, <1>8, <1>10
<1>. QED
  BY <1>9, <1>11 DEF Moved

LEMMA BeginCounts ==
  ASSUME NEW a, IsAdapter(a)
  PROVE  LET b == Begin([a EXCEPT !.out = <<>>]) IN
         /\ IsAdapter(b) /\ DialogKept(a, b)
         /\ b.life = "Exited" <=> a.life = "Exited"
         /\ /\ Len(a.buffer) <= a.seq
            /\ \A i \in 1..Len(a.buffer) :
                 a.buffer[i].seq = a.seq - Len(a.buffer) + i
            => Counted(b, a.seq - Len(a.buffer))
<1>1. PICK o \in Seq(Told) : o = <<>> \o a.buffer
  BY EmptySeq, ConcatProperties DEF IsAdapter
<1>2. o = a.buffer
  BY <1>1 DEF IsAdapter
<1>3. PICK e \in Seq(Told) : e = <<>>
  BY EmptySeq
<1>4. PICK c : c = [a EXCEPT !.out = <<>>]
  OBVIOUS
<1>5. DOMAIN c = Fields /\ c.out = <<>> /\ c.buffer = a.buffer
  BY <1>4 DEF IsAdapter, Fields
<1>6. PICK b : b = [c EXCEPT !.out = o, !.buffer = e, !.typed = None]
  OBVIOUS
<1>7. /\ DOMAIN b = Fields /\ b.out = a.buffer /\ b.buffer = <<>>
      /\ b.seq = a.seq /\ b.generation = a.generation /\ b.life = a.life
      /\ DialogKept(a, b)
  BY <1>2, <1>3, <1>4, <1>6 DEF IsAdapter, Fields, DialogKept
<1>8. IsAdapter(b)
  BY <1>3, <1>7 DEF IsAdapter, DialogKept
<1>9. /\ Len(a.buffer) <= a.seq
      /\ \A i \in 1..Len(a.buffer) :
           a.buffer[i].seq = a.seq - Len(a.buffer) + i
      => Counted(b, a.seq - Len(a.buffer))
  <2>1. Len(a.buffer) \in Nat /\ a.seq \in Nat
    BY DEF IsAdapter
  <2>. QED
    BY <1>7, <2>1 DEF Counted
<1>10. b = [c EXCEPT !.out = @ \o c.buffer, !.buffer = <<>>, !.typed = None]
  BY <1>1, <1>3, <1>5, <1>6 DEF Fields
<1>11. PICK d : d = At(b, "Starting")
  OBVIOUS
<1>12. Follows(b, d) /\ DialogKept(b, d) /\ d.life = "Starting" /\ IsAdapter(d)
  BY <1>8, <1>11, AtFollows DEF Follows
<1>13. PICK f : f = Emit(d, "started")
  OBVIOUS
<1>14. Follows(b, f) /\ DialogKept(d, f) /\ f.life = "Starting"
  BY <1>12, <1>13, EmitFollows, FollowsOn DEF AgentKinds
<1>15. Begin(c) = IF b.life = "Uninitialized" THEN f ELSE b
  BY <1>10, <1>11, <1>13 DEF Begin
<1>16. CASE b.life = "Uninitialized"
  BY <1>4, <1>7, <1>9, <1>12, <1>14, <1>15, <1>16 DEF Follows, DialogKept
<1>17. CASE b.life # "Uninitialized"
  BY <1>4, <1>7, <1>8, <1>9, <1>15, <1>17
<1>. QED
  BY <1>16, <1>17

(* What the adapter has read, and what it makes of it.                     *)
Looked(a, b) ==
  \/ ~unread /\ b = a
  \/ /\ unread /\ terminal = a.current
     /\ b.screen = terminal /\ b.current = a.current
     /\ b.pending = a.pending /\ b.consumed = a.consumed /\ b.life = a.life
  \/ /\ unread /\ terminal # a.current
     /\ \E c : /\ c.pending = a.pending /\ c.consumed = a.consumed
               /\ c.life = a.life /\ c.screen = terminal
               /\ c.current = terminal /\ Moved(c, b, terminal)

LEMMA LookFollows ==
  ASSUME NEW a, IsAdapter(a), terminal \in Screens,
         NEW evidence, NEW sent \in BOOLEAN
  PROVE  LET b == Look(a, evidence, sent) IN
         Follows(a, b) /\ (sent => Looked(a, b))
<1>1. CASE ~unread
  BY <1>1, FieldFollows DEF Look, Looked
<1>2. CASE unread
  <2>1. PICK b : b = [a EXCEPT !.screen = terminal]
    OBVIOUS
  <2>2. /\ Follows(a, b) /\ IsAdapter(b) /\ b.screen = terminal
        /\ b.current = a.current /\ b.pending = a.pending
        /\ b.consumed = a.consumed /\ b.life = a.life
    BY <2>1, ScreenFollows DEF Follows
  <2>3. CASE terminal = a.current
    <3>1. Look(a, evidence, sent) = b
      BY <1>2, <2>1, <2>3 DEF Look
    <3>. QED
      BY <1>2, <2>2, <2>3, <3>1 DEF Looked
  <2>4. CASE terminal # a.current
    <3>1. PICK c : c = [b EXCEPT !.current = terminal]
      OBVIOUS
    <3>2. /\ Follows(b, c) /\ c.screen = terminal /\ c.current = terminal
          /\ c.pending = b.pending /\ c.consumed = b.consumed
          /\ c.life = b.life
      BY <2>2, <3>1, ScreenFollows
    <3>3. PICK d : d = HandleTransition(c, terminal, evidence, sent)
      OBVIOUS
    <3>4. Follows(a, c) /\ IsAdapter(c)
      BY <2>2, <3>2, FollowsOn DEF Follows
    <3>5. Follows(c, d) /\ (sent => Moved(c, d, terminal))
      BY <3>3, <3>4, BlockingFollows, NotBlockingFollows
    <3>6. Follows(a, d)
      BY <3>4, <3>5, FollowsOn
    <3>7. Look(a, evidence, sent) = d
      BY <1>2, <2>1, <2>4, <3>1, <3>3 DEF Look
    <3>. QED
      BY <1>2, <2>2, <2>4, <3>2, <3>5, <3>6, <3>7 DEF Looked
  <2>. QED
    BY <2>3, <2>4
<1>. QED
  BY <1>1, <1>2

(* What an answer is followed by when its grace is over.                   *)
Resurfaced(a, b) ==
  \/ b = a
  \/ /\ a.pending = None /\ a.consumed # None /\ a.consumed.over
     /\ IsBlocking(a.current)
     /\ b.pending # None /\ b.pending.screen = a.current
     /\ b.consumed = None /\ b.life = "Blocked"
     /\ b.screen = a.screen /\ b.current = a.current

LEMMA ResurfaceFollows ==
  ASSUME NEW a, IsAdapter(a)
  PROVE  Follows(a, Resurface(a)) /\ Resurfaced(a, Resurface(a))
<1>. DEFINE due == /\ a.pending = None /\ a.writeIn = None
                   /\ IsBlocking(a.current)
                   /\ a.consumed # None /\ a.consumed.over
<1>1. CASE ~due
  BY <1>1, FieldFollows DEF Resurface, Resurfaced
<1>2. CASE due
  <2>1. a.current \in Dialogs
    BY <1>2, DialogScreen DEF IsAdapter
  <2>2. PICK b : b = OpenRequest(a, a.current)
    OBVIOUS
  <2>3. Follows(a, b) /\ Opened(a, b, a.current)
    BY <2>1, <2>2, OpenFollows
  <2>4. ~InGrace(a, a.current)
    BY <1>2 DEF InGrace
  <2>5. Resurface(a) = b
    BY <1>2, <2>2 DEF Resurface
  <2>. QED
    BY <1>2, <2>3, <2>4, <2>5 DEF Opened, Resurfaced
<1>. QED
  BY <1>1, <1>2

LEMMA DeathFollows ==
  ASSUME NEW a, IsAdapter(a)
  PROVE  /\ Follows(a, NoticeDeath(a))
         /\ alive => NoticeDeath(a) = a
<1>1. PICK b : b = At(a, "Exited")
  OBVIOUS
<1>2. Follows(a, b) /\ IsAdapter(b)
  BY <1>1, AtFollows DEF Follows
<1>3. PICK c : c = ExpirePending(b)
  OBVIOUS
<1>4. Follows(a, c) /\ IsAdapter(c)
  BY <1>2, <1>3, ExpireFollows, FollowsOn DEF Follows
<1>5. PICK d : d = [c EXCEPT !.writeIn = None]
  OBVIOUS
<1>6. Follows(a, d) /\ IsAdapter(d)
  BY <1>4, <1>5, FieldFollows, FollowsOn DEF Follows
<1>7. Follows(a, Emit(d, "adapter_error"))
  BY <1>6, EmitFollows, FollowsOn DEF AgentKinds
<1>8. NoticeDeath(a) = IF alive \/ a.life = "Exited" THEN a
                       ELSE Emit(d, "adapter_error")
  BY <1>1, <1>3, <1>5 DEF NoticeDeath
<1>. QED
  BY <1>7, <1>8, FieldFollows

-----------------------------------------------------------------------------
(* The numbers.                                                            *)

(* What waits in the buffer has the last numbers given.                    *)
Buffered(a) ==
  /\ IsAdapter(a) /\ Len(a.buffer) <= a.seq
  /\ \A i \in 1..Len(a.buffer) : a.buffer[i].seq = a.seq - Len(a.buffer) + i

(* What a call from a to b may do to the events.                           *)
Numbering(a, b) ==
  LET waiting == Len(a.buffer) IN
  /\ Numbers(b.out \o b.buffer)
       = UpFrom(a.seq - waiting + 1, b.seq - a.seq + waiting)
  /\ b.out # <<>> => b.buffer = <<>>

(* The stages of a poll, one after the other.                              *)
Stages(a, b, c, d, e, f, sent) ==
  /\ c = Begin([a EXCEPT !.out = <<>>])
  /\ DialogKept(a, c) /\ (c.life = "Exited" <=> a.life = "Exited")
  /\ Follows(c, d) /\ (sent => Looked(c, d))
  /\ Follows(d, e) /\ DialogKept(d, e) /\ e.life = d.life
  /\ Follows(e, f) /\ Resurfaced(e, f)
  /\ Follows(f, b) /\ (alive => b = f)

LEMMA PollStages ==
  ASSUME NEW a, IsAdapter(a), terminal \in Screens,
         NEW evidence, NEW sent \in BOOLEAN,
         NEW b \in PollOutcomes(a, evidence, sent)
  PROVE  \E c, d, e, f : Stages(a, b, c, d, e, f, sent)
<1>1. PICK c : c = Begin([a EXCEPT !.out = <<>>])
  OBVIOUS
<1>2. PICK d : d = Look(c, evidence, sent)
  OBVIOUS
<1>3. PICK e : e = ForgetLateWriteIn(d)
  OBVIOUS
<1>4. PICK f : f = Resurface(e)
  OBVIOUS
<1>5. b = NoticeDeath(f)
  BY <1>1, <1>2, <1>3, <1>4 DEF PollOutcomes
<1>6. IsAdapter(c) /\ DialogKept(a, c) /\ (c.life = "Exited" <=> a.life = "Exited")
  BY <1>1, BeginCounts
<1>7. Follows(c, d) /\ IsAdapter(d) /\ (sent => Looked(c, d))
  BY <1>2, <1>6, LookFollows DEF Follows
<1>8. Follows(d, e) /\ IsAdapter(e) /\ DialogKept(d, e) /\ e.life = d.life
  BY <1>3, <1>7, WriteInDropped DEF Follows
<1>9. Follows(e, f) /\ IsAdapter(f) /\ Resurfaced(e, f)
  BY <1>4, <1>8, ResurfaceFollows DEF Follows
<1>10. Follows(f, b) /\ (alive => b = f)
  BY <1>5, <1>9, DeathFollows
<1>11. Stages(a, b, c, d, e, f, sent)
  BY <1>1, <1>6, <1>7, <1>8, <1>9, <1>10 DEF Stages
<1>. QED
  BY <1>11

LEMMA PollCounts ==
  ASSUME NEW a, Buffered(a), terminal \in Screens,
         NEW evidence, NEW sent \in BOOLEAN,
         NEW b \in PollOutcomes(a, evidence, sent)
  PROVE  Counted(b, a.seq - Len(a.buffer)) /\ IsAdapter(b)
<1>. PICK first : first = a.seq - Len(a.buffer)
  OBVIOUS
<1>1. IsAdapter(a)
  BY DEF Buffered
<1>2. PICK c, d, e, f : Stages(a, b, c, d, e, f, sent)
  BY <1>1, PollStages
<1>3. Counted(c, first)
  BY <1>1, <1>2, BeginCounts DEF Buffered, Stages
<1>4. Follows(c, d) /\ Follows(d, e) /\ Follows(e, f) /\ Follows(f, b)
  BY <1>2 DEF Stages
<1>. QED
  BY <1>3, <1>4 DEF Follows

LEMMA CountedNumbers ==
  ASSUME NEW a, Buffered(a), NEW b, IsAdapter(b),
         Counted(b, a.seq - Len(a.buffer))
  PROVE  Buffered(b) /\ Numbering(a, b)
<1>. PICK first \in Nat : first = a.seq - Len(a.buffer)
  BY DEF Counted
<1>1. PICK n \in Nat : n = Len(b.out)
  BY DEF IsAdapter
<1>2. a.seq \in Nat /\ b.seq = first + n /\ Len(a.buffer) \in Nat
      /\ b.buffer = <<>>
  BY <1>1 DEF Counted, Buffered, IsAdapter
<1>3. b.out \o b.buffer = b.out
  BY <1>2 DEF IsAdapter
<1>4. Numbers(b.out) = [i \in 1..n |-> first + i]
  <2>1. DOMAIN b.out = 1..n
    BY <1>1 DEF IsAdapter
  <2>2. \A i \in 1..n : b.out[i].seq = first + i
    BY <1>1 DEF Counted
  <2>. QED
    BY <2>1, <2>2 DEF Numbers
<1>5. b.seq - a.seq + Len(a.buffer) = n
  BY <1>2
<1>6. UpFrom(first + 1, n) = [i \in 1..n |-> first + i]
  <2>1. \A i \in 1..n : first + 1 + i - 1 = first + i
    OBVIOUS
  <2>. QED
    BY <2>1 DEF UpFrom
<1>7. Len(b.buffer) = 0 /\ b.seq \in Nat
  BY <1>2
<1>8. Buffered(b)
  BY <1>2, <1>7 DEF Buffered
<1>. QED
  BY <1>2, <1>3, <1>4, <1>5, <1>6, <1>8 DEF Numbering

(* A call that emits nothing, and one whose event waits for the next poll. *)
LEMMA QuietNumbers ==
  ASSUME NEW a, Buffered(a), NEW b, IsAdapter(b),
         b.out = <<>>, b.buffer = a.buffer, b.seq = a.seq
  PROVE  Buffered(b) /\ Numbering(a, b)
<1>. PICK n \in Nat : n = Len(a.buffer)
  BY DEF Buffered, IsAdapter
<1>1. a.seq \in Nat /\ n <= a.seq /\ DOMAIN a.buffer = 1..n
      /\ \A i \in 1..n : a.buffer[i].seq = a.seq - n + i
  BY DEF Buffered, IsAdapter
<1>2. b.out \o b.buffer = a.buffer
  BY DEF Buffered, IsAdapter
<1>3. Numbers(a.buffer) = [i \in 1..n |-> a.seq - n + i]
  BY <1>1 DEF Numbers
<1>4. UpFrom(a.seq - n + 1, n) = [i \in 1..n |-> a.seq - n + i]
  <2>1. \A i \in 1..n : a.seq - n + 1 + i - 1 = a.seq - n + i
    BY <1>1
  <2>. QED
    BY <2>1 DEF UpFrom
<1>5. b.seq - a.seq + n = n
  BY <1>1
<1>6. Buffered(b)
  BY DEF Buffered
<1>. QED
  BY <1>2, <1>3, <1>4, <1>5, <1>6 DEF Numbering

LEMMA OneMore ==
  ASSUME NEW q \in Nat, NEW n \in Nat, n <= q
  PROVE  /\ (q + 1) - q + n = n + 1 /\ (q + 1) - (n + 1) = q - n
         /\ q + 1 \in Nat /\ n + 1 <= q + 1
OBVIOUS

LEMMA LaterNumbers ==
  ASSUME NEW a, Buffered(a), NEW b, IsAdapter(b), NEW e \in Told,
         b.out = <<>>, b.buffer = Append(a.buffer, e), b.seq = a.seq + 1,
         e.seq = a.seq + 1
  PROVE  Buffered(b) /\ Numbering(a, b)
<1>. PICK n \in Nat : n = Len(a.buffer)
  BY DEF Buffered, IsAdapter
<1>1. a.seq \in Nat /\ n <= a.seq
      /\ \A i \in 1..n : a.buffer[i].seq = a.seq - n + i
  BY DEF Buffered, IsAdapter
<1>. PICK first \in Nat : first = a.seq - n
  BY <1>1
<1>2. a.seq = first + n
  BY <1>1
<1>3. PICK s \in Seq(Told) : s = Append(a.buffer, e)
  BY AppendProperties DEF Buffered, IsAdapter
<1>4. /\ Len(s) = n + 1 /\ s[n + 1] = e
      /\ \A i \in 1..n : s[i] = a.buffer[i]
  BY <1>3, AppendProperties DEF Buffered, IsAdapter
<1>5. ASSUME NEW i \in 1..(n + 1) PROVE s[i].seq = first + i
  <2>1. CASE i = n + 1
    BY <1>2, <1>4, <2>1
  <2>2. CASE i # n + 1
    <3>1. i \in 1..n
      BY <2>2
    <3>. QED
      BY <1>1, <1>4, <3>1
  <2>. QED
    BY <2>1, <2>2
<1>6. b.out \o b.buffer = s
  BY <1>3
<1>7. Numbers(s) = [i \in 1..(n + 1) |-> first + i]
  <2>1. DOMAIN s = 1..(n + 1)
    BY <1>4
  <2>. QED
    BY <1>5, <2>1 DEF Numbers
<1>8. UpFrom(first + 1, n + 1) = [i \in 1..(n + 1) |-> first + i]
  <2>1. \A i \in 1..(n + 1) : first + 1 + i - 1 = first + i
    OBVIOUS
  <2>. QED
    BY <2>1 DEF UpFrom
<1>9. b.seq - a.seq + n = n + 1 /\ b.seq - (n + 1) = first /\ b.seq \in Nat
      /\ n + 1 <= b.seq
  <2>1. PICK q \in Nat : q = a.seq /\ n <= q /\ first = q - n
    BY <1>1
  <2>2. b.seq = q + 1
    BY <2>1
  <2>3. /\ (q + 1) - q + n = n + 1 /\ (q + 1) - (n + 1) = q - n
        /\ q + 1 \in Nat /\ n + 1 <= q + 1
    BY <2>1, OneMore
  <2>. QED
    BY <2>1, <2>2, <2>3
<1>10. Buffered(b)
  BY <1>3, <1>4, <1>5, <1>9 DEF Buffered
<1>. QED
  BY <1>6, <1>7, <1>8, <1>9, <1>10 DEF Numbering

(* Answering and prompting.                                                *)

LEMMA LiveScreen ==
  ASSUME NEW a, IsAdapter(a), terminal \in Screens
  PROVE  Live(a) \in Screens
BY DEF Live, IsAdapter

(* A call that read the screen, or refused to.                             *)
LEMMA QuietRead ==
  ASSUME NEW a, IsAdapter(a), NEW s \in Screens
  PROVE  LET b == Quiet(a)
             c == [Quiet(a) EXCEPT !.screen = s] IN
         /\ IsAdapter(b) /\ b.out = <<>> /\ b.buffer = a.buffer
         /\ b.seq = a.seq /\ DialogKept(a, b) /\ b.life = a.life
         /\ IsAdapter(c) /\ c.out = <<>> /\ c.buffer = a.buffer
         /\ c.seq = a.seq /\ c.screen = s /\ c.current = a.current
         /\ c.pending = a.pending /\ c.consumed = a.consumed
         /\ c.life = a.life
<1>1. PICK o \in Seq(Told) : o = <<>>
  BY EmptySeq
<1>2. PICK b : b = [a EXCEPT !.out = o, !.typed = None]
  OBVIOUS
<1>3. /\ EventsKept([a EXCEPT !.out = o], b) /\ b.out = o
      /\ DOMAIN b = Fields /\ b.seq = a.seq /\ b.generation = a.generation
      /\ b.buffer = a.buffer /\ DialogKept(a, b) /\ b.life = a.life
  BY <1>2 DEF IsAdapter, Fields, EventsKept, DialogKept
<1>4. IsAdapter(b)
  BY <1>3 DEF IsAdapter, DialogKept
<1>5. PICK c : c = [b EXCEPT !.screen = s]
  OBVIOUS
<1>6. /\ EventsKept(b, c) /\ c.screen = s /\ c.current = b.current
      /\ c.pending = b.pending /\ c.consumed = b.consumed
      /\ c.life = b.life
  BY <1>4, <1>5 DEF IsAdapter, Fields, EventsKept
<1>7. IsAdapter(c)
  BY <1>4, <1>6 DEF IsAdapter, EventsKept
<1>8. b = Quiet(a)
  BY <1>1, <1>2 DEF Quiet
<1>. QED
  BY <1>1, <1>3, <1>4, <1>5, <1>6, <1>7, <1>8 DEF EventsKept, DialogKept

(* An event waits for the next poll.                                       *)
LEMMA LaterEvent ==
  ASSUME NEW a, IsAdapter(a)
  PROVE  LET e == [kind |-> "progress", seq |-> a.seq + 1]
             b == [a EXCEPT !.seq = @ + 1, !.buffer = Append(@, e)] IN
         /\ e \in Told /\ IsAdapter(b) /\ DialogKept(a, b) /\ b.life = a.life
         /\ b.out = a.out /\ b.seq = a.seq + 1
         /\ b.buffer = Append(a.buffer, e)
<1>1. PICK n \in Nat : n = a.seq + 1
  BY DEF IsAdapter
<1>2. PICK e \in Told : e = [kind |-> "progress", seq |-> n]
  BY DEF Told, AgentKinds
<1>3. PICK o \in Seq(Told) : o = Append(a.buffer, e)
  BY AppendProperties DEF IsAdapter
<1>4. PICK b : b = [a EXCEPT !.seq = n, !.buffer = o]
  OBVIOUS
<1>5. /\ DOMAIN b = Fields /\ b.seq = n /\ b.generation = a.generation
      /\ b.out = a.out /\ b.buffer = o /\ DialogKept(a, b)
      /\ b.life = a.life
  BY <1>4 DEF IsAdapter, Fields, DialogKept
<1>6. IsAdapter(b)
  BY <1>3, <1>5 DEF IsAdapter, DialogKept
<1>7. b = [a EXCEPT !.seq = @ + 1, !.buffer = Append(@, e)]
  BY <1>1, <1>3, <1>4 DEF IsAdapter, Fields
<1>. QED
  BY <1>1, <1>2, <1>3, <1>5, <1>6, <1>7

(* What a call does to the events: nothing, or one is added to the buffer. *)
Quiets(a, b) ==
  /\ IsAdapter(b) /\ b.out = <<>>
  /\ \/ b.buffer = a.buffer /\ b.seq = a.seq
     \/ /\ b.seq = a.seq + 1
        /\ \E e \in Told : e.seq = a.seq + 1 /\ b.buffer = Append(a.buffer, e)

LEMMA QuietsNumbers ==
  ASSUME NEW a, Buffered(a), NEW b, Quiets(a, b)
  PROVE  Buffered(b) /\ Numbering(a, b)
BY QuietNumbers, LaterNumbers DEF Quiets

LEMMA AnsweredEffect ==
  ASSUME NEW a, IsAdapter(a), a.out = <<>>, terminal \in Screens,
         Live(a) \in Dialogs, NEW response
  PROVE  LET b == Answered(a, response) IN
         /\ Quiets(a, b) /\ b.pending = None /\ b.consumed # None
         /\ b.life = "Working" /\ b.screen = a.screen
         /\ b.current = a.current
<1>1. PICK opens \in BOOLEAN :
        opens = (Encoding(Live(a), response) = "open_write_in")
  OBVIOUS
<1>2. PICK k \in Answers :
        k = [screen |-> Live(a), over |-> FALSE, opens |-> opens]
  BY DEF Answers
<1>3. PICK t : t = [what |-> "answer", seq |-> a.pending.seq, into |-> Live(a)]
  OBVIOUS
<1>4. PICK w : w = IF opens THEN [question |-> Live(a).id, late |-> FALSE]
                   ELSE a.writeIn
  OBVIOUS
<1>5. PICK b : b = [a EXCEPT !.pending = None, !.outcome = "Consumed",
                             !.consumed = k, !.typed = t, !.writeIn = w]
  OBVIOUS
<1>6. /\ EventsKept(a, b) /\ b.pending = None /\ b.consumed = k
      /\ b.screen = a.screen /\ b.current = a.current
  BY <1>5 DEF IsAdapter, Fields, EventsKept
<1>7. IsAdapter(b)
  BY <1>6 DEF EventsKept, IsAdapter
<1>8. PICK work : work = IF opens THEN "opening_write_in" ELSE "answered"
  OBVIOUS
<1>9. PICK c : c = Busy(b, work)
  OBVIOUS
<1>10. /\ EventsKept(b, c) /\ DialogKept(b, c) /\ c.life = "Working"
  BY <1>7, <1>9 DEF Busy, IsAdapter, Fields, EventsKept, DialogKept
<1>11. IsAdapter(c)
  BY <1>7, <1>10 DEF EventsKept, DialogKept, IsAdapter
<1>12. PICK e \in Told : e = [kind |-> "progress", seq |-> c.seq + 1]
  BY <1>11, LaterEvent
<1>13. PICK d : d = [c EXCEPT !.seq = @ + 1, !.buffer = Append(@, e)]
  OBVIOUS
<1>14. /\ IsAdapter(d) /\ DialogKept(c, d) /\ d.life = "Working"
       /\ d.out = c.out /\ d.seq = c.seq + 1 /\ d.buffer = Append(c.buffer, e)
  BY <1>10, <1>11, <1>12, <1>13, LaterEvent
<1>15. Answered(a, response) = d
  BY <1>1, <1>2, <1>3, <1>4, <1>5, <1>8, <1>9, <1>12, <1>13 DEF Answered
<1>16. Quiets(a, d)
  BY <1>6, <1>10, <1>12, <1>14 DEF Quiets, EventsKept
<1>. QED
  BY <1>6, <1>10, <1>14, <1>15, <1>16, NotNone DEF DialogKept

(* What an answer that meets a living agent does.                          *)
Heard(a, b) ==
  \/ DialogKept(a, b) /\ b.life = a.life
  \/ /\ a.pending # None /\ SameRequest(a.pending.screen, b.screen)
     /\ b.current = a.current /\ b.pending = a.pending
     /\ b.consumed = a.consumed /\ b.life = a.life
  \/ /\ a.pending # None /\ ~SameRequest(a.pending.screen, b.screen)
     /\ b.pending = None /\ b.current = b.screen
     /\ b.consumed = a.consumed /\ b.life = a.life
     /\ b.outcome = "Expired" /\ b.seq = a.seq
  \/ /\ b.pending = None /\ b.consumed # None /\ b.life = "Working"

LEMMA RespondedEffect ==
  ASSUME NEW a, IsAdapter(a), terminal \in Screens,
         NEW seq, NEW response, NEW sent \in BOOLEAN
  PROVE  LET b == Responded(a, seq, response, sent) IN
         Quiets(a, b) /\ (alive /\ sent => Heard(a, b))
<1>1. PICK live \in Screens : live = Live(a)
  BY LiveScreen
<1>2. PICK b : b = IF ReadsScreen(a, seq) THEN [Quiet(a) EXCEPT !.screen = live]
                   ELSE Quiet(a)
  OBVIOUS
<1>3. /\ IsAdapter(b) /\ b.out = <<>> /\ b.buffer = a.buffer
      /\ b.seq = a.seq /\ b.current = a.current /\ b.pending = a.pending
      /\ b.consumed = a.consumed /\ b.life = a.life
      /\ b.screen = IF ReadsScreen(a, seq) THEN live ELSE a.screen
  BY <1>2, QuietRead DEF DialogKept
<1>4. PICK error : error = RespondError(a, seq, response, sent)
  OBVIOUS
<1>5. PICK r : r = Responded(a, seq, response, sent)
  OBVIOUS
<1>6. r = CASE error = "ok" -> Answered(b, response)
            [] error = "disconnected" ->
                 IF ~alive THEN ExpirePending(b)
                 ELSE ExpirePending(At(b, "Exited"))
            [] error = "state_mismatch" /\ a.pending # None ->
                 ExpirePending([b EXCEPT !.current = live])
            [] OTHER -> b
  BY <1>1, <1>2, <1>4, <1>5 DEF Responded
<1>7. CASE error = "ok"
  <2>1. /\ alive /\ a.pending # None /\ a.pending.seq = seq
        /\ SameRequest(a.pending.screen, live)
    BY <1>1, <1>4, <1>7 DEF RespondError
  <2>2. b.screen = live
    BY <1>3, <2>1 DEF ReadsScreen
  <2>3. live \in Dialogs
    BY <2>1, DialogScreen DEF SameRequest, IsBlocking
  <2>4. Live(b) = live
    BY <1>1, <2>2 DEF Live
  <2>5. PICK c : c = Answered(b, response)
    OBVIOUS
  <2>6. /\ Quiets(b, c) /\ c.pending = None /\ c.consumed # None
        /\ c.life = "Working"
    BY <1>3, <2>3, <2>4, <2>5, AnsweredEffect
  <2>7. r = c
    BY <1>6, <1>7, <2>5
  <2>. QED
    BY <1>3, <1>5, <2>6, <2>7 DEF Quiets, Heard
<1>8. CASE error = "disconnected"
  <2>1. ~(alive /\ sent)
    <3>1. CASE alive
      BY <1>4, <1>8, <3>1 DEF RespondError
    <3>. QED
      BY <3>1
  <2>2. PICK c : c = At(b, "Exited")
    OBVIOUS
  <2>3. EventsKept(b, c) /\ IsAdapter(c)
    BY <1>3, <2>2, AtFollows DEF At, IsAdapter, Fields, EventsKept, Follows
  <2>4. \A x : IsAdapter(x) /\ x.out = <<>> /\ x.buffer = a.buffer /\ x.seq = a.seq
          => Quiets(a, ExpirePending(x))
    <3>1. ASSUME NEW x, IsAdapter(x), x.out = <<>>, x.buffer = a.buffer,
                 x.seq = a.seq
          PROVE  Quiets(a, ExpirePending(x))
      <4>1. PICK y : y = [x EXCEPT !.pending = None, !.outcome = "Expired"]
        OBVIOUS
      <4>2. y.out = x.out /\ y.buffer = x.buffer /\ y.seq = x.seq
        BY <3>1, <4>1 DEF IsAdapter, Fields
      <4>3. IsAdapter(ExpirePending(x))
        BY <3>1, ExpireFollows DEF Follows
      <4>4. ExpirePending(x) \in {x, y}
        BY <4>1 DEF ExpirePending
      <4>. QED
        BY <3>1, <4>2, <4>3, <4>4 DEF Quiets
    <3>. QED
      BY <3>1
  <2>5. Quiets(a, ExpirePending(b)) /\ Quiets(a, ExpirePending(c))
    BY <1>3, <2>3, <2>4 DEF EventsKept
  <2>6. r = IF ~alive THEN ExpirePending(b) ELSE ExpirePending(c)
    BY <1>6, <1>8, <2>2
  <2>. QED
    BY <1>5, <2>1, <2>5, <2>6
<1>9. CASE error = "state_mismatch" /\ a.pending # None
  <2>1. /\ alive /\ a.pending.seq = seq
        /\ ~SameRequest(a.pending.screen, live)
    BY <1>1, <1>4, <1>9 DEF RespondError
  <2>2. b.screen = live
    BY <1>3, <1>9, <2>1 DEF ReadsScreen
  <2>3. PICK c : c = [b EXCEPT !.current = live]
    OBVIOUS
  <2>4. /\ EventsKept(b, c) /\ c.screen = live /\ c.current = live
        /\ c.pending = a.pending /\ c.consumed = a.consumed
        /\ c.life = a.life
    BY <1>3, <2>2, <2>3 DEF IsAdapter, Fields, EventsKept
  <2>5. PICK d : d = [c EXCEPT !.pending = None, !.outcome = "Expired"]
    OBVIOUS
  <2>6. /\ EventsKept(c, d) /\ d.screen = live /\ d.current = live
        /\ d.pending = None /\ d.consumed = a.consumed
        /\ d.life = a.life /\ d.outcome = "Expired"
    BY <1>3, <2>4, <2>5 DEF IsAdapter, Fields, EventsKept
  <2>7. IsAdapter(d)
    BY <1>3, <2>4, <2>6 DEF IsAdapter, EventsKept
  <2>8. r = d
    BY <1>6, <1>9, <2>3, <2>4, <2>5 DEF ExpirePending
  <2>. QED
    BY <1>3, <1>5, <1>9, <2>1, <2>4, <2>6, <2>7, <2>8
       DEF Quiets, Heard, EventsKept
<1>10. CASE /\ error # "ok" /\ error # "disconnected"
            /\ ~(error = "state_mismatch" /\ a.pending # None)
  <2>1. r = b
    BY <1>6, <1>10
  <2>2. Quiets(a, b)
    BY <1>3 DEF Quiets
  <2>3. ASSUME alive PROVE Heard(a, b)
    <3>1. CASE ReadsScreen(a, seq)
      <4>1. a.pending # None /\ a.pending.seq = seq
        BY <3>1 DEF ReadsScreen
      <4>2. SameRequest(a.pending.screen, live)
        BY <1>1, <1>4, <1>10, <2>3, <4>1 DEF RespondError
      <4>. QED
        BY <1>3, <3>1, <4>1, <4>2 DEF Heard
    <3>2. CASE ~ReadsScreen(a, seq)
      BY <1>3, <3>2 DEF Heard, DialogKept
    <3>. QED
      BY <3>1, <3>2
  <2>. QED
    BY <1>5, <2>1, <2>2, <2>3
<1>. QED
  BY <1>7, <1>8, <1>9, <1>10

LEMMA PromptedEffect ==
  ASSUME NEW a, IsAdapter(a)
  PROVE  LET b == PromptStarted(a) IN
         /\ Quiets(a, b) /\ b.life = "Working" /\ b.screen = a.screen
         /\ b.current = Working("prompt") /\ b.pending = a.pending
         /\ b.consumed = a.consumed
<1>1. PICK q : q = Quiet(a)
  OBVIOUS
<1>2. /\ IsAdapter(q) /\ q.out = <<>> /\ q.buffer = a.buffer
      /\ q.seq = a.seq /\ DialogKept(a, q)
  BY <1>1, QuietRead DEF IsAdapter
<1>3. PICK t : t = [what |-> "prompt", seq |-> 0, into |-> a.screen]
  OBVIOUS
<1>4. PICK w : w = Working("prompt")
  OBVIOUS
<1>5. PICK b : b = [q EXCEPT !.prompted = TRUE, !.current = w, !.typed = t]
  OBVIOUS
<1>6. /\ EventsKept(q, b) /\ b.screen = q.screen /\ b.current = w
      /\ b.pending = q.pending /\ b.consumed = q.consumed
  BY <1>2, <1>5 DEF IsAdapter, Fields, EventsKept
<1>7. IsAdapter(b)
  BY <1>2, <1>4, <1>6 DEF IsAdapter, EventsKept
<1>8. PICK c : c = Busy(b, "prompt")
  OBVIOUS
<1>9. EventsKept(b, c) /\ DialogKept(b, c) /\ c.life = "Working"
  BY <1>7, <1>8 DEF Busy, IsAdapter, Fields, EventsKept, DialogKept
<1>10. IsAdapter(c)
  BY <1>7, <1>9 DEF EventsKept, DialogKept, IsAdapter
<1>11. PICK e \in Told : e = [kind |-> "progress", seq |-> c.seq + 1]
  BY <1>10, LaterEvent
<1>12. PICK d : d = [c EXCEPT !.seq = @ + 1, !.buffer = Append(@, e)]
  OBVIOUS
<1>13. /\ IsAdapter(d) /\ DialogKept(c, d) /\ d.life = "Working"
       /\ d.out = c.out /\ d.seq = c.seq + 1 /\ d.buffer = Append(c.buffer, e)
  BY <1>9, <1>10, <1>11, <1>12, LaterEvent
<1>14. PromptStarted(a) = d
  BY <1>1, <1>3, <1>4, <1>5, <1>8, <1>11, <1>12 DEF PromptStarted
<1>15. Quiets(a, d)
  BY <1>2, <1>6, <1>9, <1>11, <1>13 DEF Quiets, EventsKept
<1>. QED
  BY <1>2, <1>4, <1>6, <1>9, <1>13, <1>14, <1>15 DEF DialogKept

(* The clock: a grace period ends, a write-in is late.                     *)
Ticked(a, b) ==
  /\ Quiets(a, b) /\ b.life = a.life /\ b.screen = a.screen
  /\ b.current = a.current /\ b.pending = a.pending
  /\ b.consumed # None <=> a.consumed # None
  /\ a.consumed # None => b.consumed.screen = a.consumed.screen

LEMMA ClockEffect ==
  ASSUME NEW a, IsAdapter(a)
  PROVE  /\ a.consumed # None =>
              Ticked(a, [Quiet(a) EXCEPT !.consumed.over = TRUE])
         /\ Ticked(a, [Quiet(a) EXCEPT !.writeIn.late = TRUE])
<1>1. PICK q : q = Quiet(a)
  OBVIOUS
<1>2. /\ IsAdapter(q) /\ q.out = <<>> /\ q.buffer = a.buffer
      /\ q.seq = a.seq /\ DialogKept(a, q) /\ q.life = a.life
  BY <1>1, QuietRead DEF IsAdapter
<1>3. ASSUME a.consumed # None
      PROVE  Ticked(a, [q EXCEPT !.consumed.over = TRUE])
  <2>1. PICK k : k = [a.consumed EXCEPT !.over = TRUE]
    OBVIOUS
  <2>2. k \in Answers /\ k.screen = a.consumed.screen
    BY <1>3, <2>1 DEF IsAdapter, Answers
  <2>3. PICK b : b = [q EXCEPT !.consumed = k]
    OBVIOUS
  <2>4. /\ EventsKept(q, b) /\ b.screen = q.screen /\ b.current = q.current
        /\ b.pending = q.pending /\ b.consumed = k /\ b.life = q.life
    BY <1>2, <2>3 DEF IsAdapter, Fields, EventsKept
  <2>5. IsAdapter(b)
    BY <1>2, <2>2, <2>4 DEF IsAdapter, EventsKept
  <2>6. b = [q EXCEPT !.consumed.over = TRUE]
    BY <1>2, <2>1, <2>3 DEF DialogKept
  <2>7. k # None
    BY <2>2, NotNone
  <2>8. Quiets(a, b)
    BY <1>2, <2>4, <2>5 DEF Quiets, EventsKept
  <2>. QED
    BY <1>2, <1>3, <2>2, <2>4, <2>6, <2>7, <2>8 DEF Ticked, DialogKept
<1>4. Ticked(a, [q EXCEPT !.writeIn.late = TRUE])
  <2>1. PICK w : w = [q.writeIn EXCEPT !.late = TRUE]
    OBVIOUS
  <2>2. PICK b : b = [q EXCEPT !.writeIn = w]
    OBVIOUS
  <2>3. EventsKept(q, b) /\ DialogKept(q, b) /\ b.life = q.life
    BY <1>2, <2>2 DEF IsAdapter, Fields, EventsKept, DialogKept
  <2>4. IsAdapter(b)
    BY <1>2, <2>3 DEF IsAdapter, EventsKept, DialogKept
  <2>5. b = [q EXCEPT !.writeIn.late = TRUE]
    BY <2>1, <2>2
  <2>6. Quiets(a, b)
    BY <1>2, <2>3, <2>4 DEF Quiets, EventsKept
  <2>. QED
    BY <1>2, <2>3, <2>5, <2>6 DEF Ticked, DialogKept
<1>. QED
  BY <1>1, <1>3, <1>4

-----------------------------------------------------------------------------
(* Steps.                                                                  *)

(* What a step does to the adapter: a poll, an answer, a prompt, the clock *)
(* or nothing.  While the agent lives the bytes of a call were written.    *)
LEMMA StepIs ==
  ASSUME IsAdapter(adapter), terminal \in Screens, [Next]_vars
  PROVE  /\ terminal' \in Screens
         /\ alive' => alive
         /\ \/ \E evidence, sent \in BOOLEAN :
                 /\ adapter' \in PollOutcomes(adapter, evidence, sent)
                 /\ alive' => sent
            \/ \E seq, response : \E sent \in BOOLEAN :
                 /\ adapter' = Responded(adapter, seq, response, sent)
                 /\ alive' => sent
            \/ /\ AcceptsChatInput(adapter.screen)
               /\ adapter' = PromptStarted(adapter)
            \/ /\ adapter' = Quiet(adapter) /\ ~alive'
            \/ Ticked(adapter, adapter')
            \/ adapter' = adapter
<1>1. CASE Poll
  <2>1. PICK evidence \in BOOLEAN, sent \in BOOLEAN :
          /\ adapter' \in PollOutcomes(adapter, evidence, sent)
          /\ \E best : Writes(best.typed, sent)
          /\ UNCHANGED terminal
    BY <1>1 DEF Poll
  <2>. QED
    BY <2>1 DEF Writes
<1>2. CASE Respond
  <2>1. PICK seq \in 1..MaxSeq, response \in Responses, sent \in BOOLEAN :
          /\ Writes(Responded(adapter, seq, response, TRUE).typed, sent)
          /\ adapter' = Responded(adapter, seq, response, sent)
          /\ UNCHANGED terminal
    BY <1>2 DEF Respond, RespondWithResponse
  <2>2. alive' => sent
    BY <2>1 DEF Writes
  <2>3. \E s, r : \E t \in BOOLEAN :
          adapter' = Responded(adapter, s, r, t) /\ (alive' => t)
    BY <2>1, <2>2
  <2>. QED
    BY <2>1, <2>3 DEF Writes
<1>3. CASE Prompt
  BY <1>3 DEF Prompt, StartPrompt, Writes
<1>4. CASE AgentShows
  BY <1>4 DEF AgentShows
<1>5. CASE AgentDies
  BY <1>5 DEF AgentDies
<1>6. CASE GraceEnds
  BY <1>6, ClockEffect DEF GraceEnds
<1>7. CASE WriteInLate
  BY <1>7, ClockEffect DEF WriteInLate
<1>8. CASE UNCHANGED vars
  BY <1>8 DEF vars
<1>. QED
  BY <1>1, <1>2, <1>3, <1>4, <1>5, <1>6, <1>7, <1>8 DEF Next

LEMMA InitAdapter ==
  ASSUME Init
  PROVE  /\ IsAdapter(adapter) /\ Buffered(adapter) /\ terminal \in Screens
         /\ ~IsBlocking(adapter.current) /\ adapter.pending = None
         /\ adapter.consumed = None /\ adapter.life = "Uninitialized"
<1>1. PICK prompted \in BOOLEAN : adapter = NewAdapter(prompted)
  BY DEF Init
<1>2. Plain("Initializing") \in Screens
  BY DEF Screens
<1>3. <<>> \in Seq(Told)
  BY EmptySeq
<1>4. IsAdapter(adapter)
  BY <1>1, <1>2, <1>3 DEF NewAdapter, IsAdapter, Fields
<1>5. Buffered(adapter)
  <2>1. adapter.buffer = <<>> /\ adapter.seq = 0
    BY <1>1 DEF NewAdapter
  <2>2. Len(adapter.buffer) = 0
    BY <2>1
  <2>. QED
    BY <1>4, <2>1, <2>2 DEF Buffered
<1>. QED
  BY <1>1, <1>2, <1>4, <1>5 DEF NewAdapter, Init, IsBlocking, Plain

LEMMA StepNumbers ==
  ASSUME Buffered(adapter), terminal \in Screens, [Next]_vars
  PROVE  /\ Buffered(adapter)' /\ (terminal \in Screens)'
         /\ adapter' # adapter => Numbering(adapter, adapter')
<1>1. IsAdapter(adapter)
  BY DEF Buffered
<1>2. ASSUME NEW b, adapter' = b, Quiets(adapter, b)
      PROVE  Buffered(b) /\ Numbering(adapter, b)
  BY <1>2, QuietsNumbers
<1>3. ASSUME NEW evidence \in BOOLEAN, NEW sent \in BOOLEAN,
             NEW b \in PollOutcomes(adapter, evidence, sent)
      PROVE  Buffered(b) /\ Numbering(adapter, b)
  BY PollCounts, CountedNumbers
<1>4. ASSUME NEW seq, NEW response, NEW sent \in BOOLEAN, NEW b,
             b = Responded(adapter, seq, response, sent)
      PROVE  Buffered(b) /\ Numbering(adapter, b)
  BY <1>1, <1>4, RespondedEffect, QuietsNumbers
<1>5. ASSUME NEW b, b = PromptStarted(adapter)
      PROVE  Buffered(b) /\ Numbering(adapter, b)
  BY <1>1, <1>5, PromptedEffect, QuietsNumbers
<1>6. ASSUME NEW b, b = Quiet(adapter)
      PROVE  Buffered(b) /\ Numbering(adapter, b)
  BY <1>1, <1>6, QuietRead, QuietNumbers
<1>7. PICK b : b = adapter'
  OBVIOUS
<1>8. \/ Buffered(b) /\ Numbering(adapter, b)
      \/ b = adapter
  BY <1>1, <1>2, <1>3, <1>4, <1>5, <1>6, <1>7, StepIs DEF Ticked
<1>9. terminal' \in Screens
  BY <1>1, StepIs
<1>. QED
  BY <1>7, <1>8, <1>9 DEF Buffered, IsAdapter

(* NoNumberLost (EveryNumberIsAnEvent): what the daemon receives from the  *)
(* adapter is numbered without a gap, a repetition or an overtaking,       *)
(* whatever the agent shows and however many events wait in the buffer.    *)
THEOREM NoNumberLost == Spec => EveryNumberIsAnEvent
<1>. DEFINE Inv == Buffered(adapter) /\ terminal \in Screens
<1>1. Init => Inv
  BY InitAdapter
<1>2. Inv /\ [Next]_vars => Inv'
  BY StepNumbers
<1>3. Inv /\ [Next]_vars
        => [LET waiting == Len(adapter.buffer) IN
            /\ Numbers(adapter'.out \o adapter'.buffer)
                 = UpFrom(adapter.seq - waiting + 1,
                          adapter'.seq - adapter.seq + waiting)
            /\ adapter'.out # <<>> => adapter'.buffer = <<>>]_adapter
  BY StepNumbers DEF Numbering
<1>. HIDE DEF Inv
<1>. QED
  BY <1>1, <1>2, <1>3, PTL DEF Spec, EveryNumberIsAnEvent

-----------------------------------------------------------------------------
(* The dialogs.                                                            *)

(* Recalled: how what the adapter remembers of the dialogs hangs together. *)
(* A request is pending beside an answer only if that answer is a write-in *)
(* typed past it, and it differs from the dialog the next poll compares    *)
(* with only if that is the entry written into.  With neither, that dialog *)
(* is the one on the screen.  An adapter that has given up has no request. *)
Recalled(a) ==
  /\ a.pending # None /\ a.consumed # None => a.consumed.screen.kind = "Entry"
  /\ /\ a.pending # None /\ IsBlocking(a.current)
     /\ ~SameRequest(a.pending.screen, a.current)
     => a.consumed # None /\ SameRequest(a.consumed.screen, a.current)
  /\ a.pending = None /\ a.consumed = None /\ IsBlocking(a.current)
     => a.screen = a.current
  /\ a.life = "Exited"
     => /\ a.pending = None
        /\ IsBlocking(a.current) \/ IsBlocking(a.screen) => a.consumed # None

(* What Announced says of a living agent's adapter.                        *)
Voiced(a) ==
  IsBlocking(a.screen) /\ a.life # "Exited"
    => IF a.pending # None THEN SameRequest(a.pending.screen, a.screen)
       ELSE a.consumed # None

Refused(a, b) ==
  /\ a.pending # None /\ b.pending = None
  /\ ~SameRequest(a.pending.screen, b.screen)
  /\ b.outcome = "Expired" /\ b.seq = a.seq

Past(a, b) ==
  /\ a.pending # None /\ b.pending = a.pending
  /\ b.consumed # None /\ b.consumed.screen.kind = "Entry"
  /\ SameRequest(b.consumed.screen, b.screen)

FromMemory(a, b) ==
  /\ a.pending = None /\ b.pending # None
  /\ a.consumed # None /\ a.consumed.over
  /\ b.screen = a.screen /\ b.pending.screen = a.current
  /\ ~SameRequest(a.current, a.screen)

LEMMA SameSelf ==
  ASSUME NEW s, IsBlocking(s)
  PROVE  SameRequest(s, s)
BY DEF SameRequest

LEMMA LookedRecalls ==
  ASSUME NEW a, Recalled(a), NEW b, Looked(a, b)
  PROVE  Recalled(b)
<1>1. CASE ~unread /\ b = a
  BY <1>1
<1>2. CASE /\ unread /\ terminal = a.current
           /\ b.screen = terminal /\ b.current = a.current
           /\ b.pending = a.pending /\ b.consumed = a.consumed
           /\ b.life = a.life
  BY <1>2 DEF Recalled
<1>3. ASSUME NEW c, c.pending = a.pending, c.consumed = a.consumed,
             c.life = a.life, c.screen = terminal, c.current = terminal,
             Moved(c, b, terminal)
      PROVE  Recalled(b)
  <2>1. b.screen = terminal /\ b.current = terminal
    BY <1>3 DEF Moved
  <2>2. CASE ~IsBlocking(terminal)
    BY <1>3, <2>1, <2>2 DEF Moved, Recalled
  <2>3. CASE /\ IsBlocking(terminal)
             /\ terminal.kind = "Entry" /\ b.pending = c.pending
             /\ b.consumed # None /\ b.consumed.screen = terminal
             /\ b.life = "Working"
    BY <2>1, <2>3, SameSelf DEF Recalled
  <2>4. CASE IsBlocking(terminal) /\ Opened(c, b, terminal)
    <3>1. CASE /\ c.pending # None /\ b.pending # None
               /\ b.pending.screen = terminal /\ b.consumed = c.consumed
               /\ b.life = "Blocked"
      BY <1>3, <2>1, <2>4, <3>1, SameSelf DEF Recalled
    <3>2. CASE /\ InGrace(c, terminal) /\ b.pending = c.pending
               /\ b.consumed = c.consumed /\ b.life = c.life
      BY <1>3, <2>1, <2>4, <3>2 DEF Recalled, InGrace
    <3>3. CASE /\ b.pending # None /\ b.pending.screen = terminal
               /\ b.consumed = None /\ b.life = "Blocked"
      BY <2>1, <2>4, <3>3, SameSelf DEF Recalled
    <3>. QED
      BY <2>4, <3>1, <3>2, <3>3 DEF Opened
  <2>. QED
    BY <1>3, <2>2, <2>3, <2>4 DEF Moved
<1>. QED
  BY <1>1, <1>2, <1>3 DEF Looked

LEMMA ResurfacedRecalls ==
  ASSUME NEW a, Recalled(a), NEW b, Resurfaced(a, b)
  PROVE  Recalled(b)
BY SameSelf DEF Resurfaced, Recalled

(* A look that leaves the dialog on the screen unannounced.                *)
LEMMA LookSilent ==
  ASSUME NEW a, Recalled(a), Voiced(a), NEW b, Looked(a, b), ~Voiced(b)
  PROVE  Past(a, b)
<1>1. CASE ~unread /\ b = a
  BY <1>1
<1>2. CASE /\ unread /\ terminal = a.current
           /\ b.screen = terminal /\ b.current = a.current
           /\ b.pending = a.pending /\ b.consumed = a.consumed
           /\ b.life = a.life
  BY <1>2 DEF Recalled, Voiced, Past
<1>3. ASSUME NEW c, c.pending = a.pending, c.consumed = a.consumed,
             c.life = a.life, c.screen = terminal, c.current = terminal,
             Moved(c, b, terminal)
      PROVE  Past(a, b)
  <2>1. b.screen = terminal /\ IsBlocking(terminal)
    BY <1>3 DEF Moved, Voiced
  <2>2. CASE /\ terminal.kind = "Entry" /\ b.pending = c.pending
             /\ b.consumed # None /\ b.consumed.screen = terminal
             /\ b.life = "Working"
    BY <1>3, <2>1, <2>2, SameSelf DEF Voiced, Past
  <2>3. CASE Opened(c, b, terminal)
    <3>1. CASE /\ c.pending # None /\ b.pending # None
               /\ b.pending.screen = terminal /\ b.consumed = c.consumed
               /\ b.life = "Blocked"
      BY <2>1, <3>1, SameSelf DEF Voiced
    <3>2. CASE /\ InGrace(c, terminal) /\ b.pending = c.pending
               /\ b.consumed = c.consumed /\ b.life = c.life
      BY <1>3, <2>1, <3>2 DEF Recalled, Voiced, Past, InGrace
    <3>3. CASE /\ b.pending # None /\ b.pending.screen = terminal
               /\ b.consumed = None /\ b.life = "Blocked"
      BY <2>1, <3>3, SameSelf DEF Voiced
    <3>. QED
      BY <2>3, <3>1, <3>2, <3>3 DEF Opened
  <2>. QED
    BY <1>3, <2>1, <2>2, <2>3 DEF Moved
<1>. QED
  BY <1>1, <1>2, <1>3 DEF Looked

LEMMA PollSilent ==
  ASSUME NEW a, IsAdapter(a), terminal \in Screens, alive,
         NEW evidence, NEW b \in PollOutcomes(a, evidence, TRUE), Recalled(a)
  PROVE  /\ Recalled(b)
         /\ Voiced(a) /\ ~Voiced(b) => Past(a, b) \/ FromMemory(a, b)
<1>1. PICK c, d, e, f : Stages(a, b, c, d, e, f, TRUE)
  BY PollStages
<1>2. /\ DialogKept(a, c) /\ (c.life = "Exited" <=> a.life = "Exited")
      /\ Looked(c, d) /\ DialogKept(d, e) /\ e.life = d.life
      /\ Resurfaced(e, b)
  BY <1>1 DEF Stages
<1>3. Recalled(c) /\ (Voiced(a) => Voiced(c))
  BY <1>2 DEF Recalled, Voiced, DialogKept
<1>4. Recalled(d)
  BY <1>2, <1>3, LookedRecalls
<1>5. Recalled(e) /\ (Voiced(e) <=> Voiced(d))
  BY <1>2, <1>4 DEF Recalled, Voiced, DialogKept
<1>6. Recalled(b)
  BY <1>2, <1>5, ResurfacedRecalls
<1>7. ASSUME Voiced(a), ~Voiced(b)
      PROVE  Past(a, b) \/ FromMemory(a, b)
  <2>1. CASE b = e
    <3>1. Past(c, d)
      BY <1>2, <1>3, <1>5, <1>7, <2>1, LookSilent
    <3>. QED
      BY <1>2, <2>1, <3>1 DEF Past, DialogKept
  <2>2. CASE b # e
    <3>1. /\ e.pending = None /\ e.consumed # None /\ e.consumed.over
          /\ IsBlocking(e.current)
          /\ b.pending # None /\ b.pending.screen = e.current
          /\ b.screen = e.screen
      BY <1>2, <2>2 DEF Resurfaced
    <3>2. ~SameRequest(e.current, e.screen)
      BY <1>7, <3>1 DEF Voiced
    <3>3. e.current # e.screen
      BY <3>1, <3>2, SameSelf
    <3>4. d.current # d.screen
      BY <1>2, <3>3 DEF DialogKept
    <3>5. d = c
      BY <1>2, <3>4 DEF Looked, Moved
    <3>. QED
      BY <1>2, <3>1, <3>2, <3>5 DEF FromMemory, DialogKept
  <2>. QED
    BY <2>1, <2>2
<1>. QED
  BY <1>6, <1>7

LEMMA HeardSilent ==
  ASSUME NEW a, Recalled(a), NEW b, Heard(a, b)
  PROVE  Recalled(b) /\ (Voiced(a) /\ ~Voiced(b) => Refused(a, b))
<1>1. CASE DialogKept(a, b) /\ b.life = a.life
  BY <1>1 DEF Recalled, Voiced, DialogKept
<1>2. CASE /\ a.pending # None /\ SameRequest(a.pending.screen, b.screen)
           /\ b.current = a.current /\ b.pending = a.pending
           /\ b.consumed = a.consumed /\ b.life = a.life
  BY <1>2 DEF Recalled, Voiced
<1>3. CASE /\ a.pending # None /\ ~SameRequest(a.pending.screen, b.screen)
           /\ b.pending = None /\ b.current = b.screen
           /\ b.consumed = a.consumed /\ b.life = a.life
           /\ b.outcome = "Expired" /\ b.seq = a.seq
  BY <1>3 DEF Recalled, Voiced, Refused
<1>4. CASE b.pending = None /\ b.consumed # None /\ b.life = "Working"
  BY <1>4 DEF Recalled, Voiced
<1>. QED
  BY <1>1, <1>2, <1>3, <1>4 DEF Heard

LEMMA PromptSilent ==
  ASSUME NEW a, IsAdapter(a), Recalled(a), NEW b, b = PromptStarted(a)
  PROVE  Recalled(b) /\ (Voiced(a) => Voiced(b))
<1>1. /\ b.life = "Working" /\ b.screen = a.screen
      /\ b.current = Working("prompt") /\ b.pending = a.pending
      /\ b.consumed = a.consumed
  BY PromptedEffect
<1>2. ~IsBlocking(b.current)
  BY <1>1 DEF IsBlocking, Working
<1>. QED
  BY <1>1, <1>2 DEF Recalled, Voiced

LEMMA TickSilent ==
  ASSUME NEW a, Recalled(a), NEW b, Ticked(a, b)
  PROVE  Recalled(b) /\ (Voiced(a) => Voiced(b))
BY DEF Ticked, Recalled, Voiced

(* Of a step while the agent lives.                                        *)
LEMMA StepSilent ==
  ASSUME IsAdapter(adapter), terminal \in Screens, [Next]_vars,
         alive => Recalled(adapter), alive', NEW b, b = adapter'
  PROVE  /\ alive /\ Recalled(b)
         /\ Voiced(adapter) /\ ~Voiced(b)
            => Refused(adapter, b) \/ Past(adapter, b) \/ FromMemory(adapter, b)
<1>1. alive /\ Recalled(adapter)
  BY StepIs
<1>2. ASSUME NEW evidence \in BOOLEAN, b \in PollOutcomes(adapter, evidence, TRUE)
      PROVE  /\ Recalled(b)
             /\ Voiced(adapter) /\ ~Voiced(b)
                => Past(adapter, b) \/ FromMemory(adapter, b)
  BY <1>1, <1>2, PollSilent
<1>3. ASSUME NEW seq, NEW response, b = Responded(adapter, seq, response, TRUE)
      PROVE  Recalled(b) /\ (Voiced(adapter) /\ ~Voiced(b) => Refused(adapter, b))
  BY <1>1, <1>3, RespondedEffect, HeardSilent
<1>4. ASSUME b = PromptStarted(adapter)
      PROVE  Recalled(b) /\ (Voiced(adapter) => Voiced(b))
  BY <1>1, <1>4, PromptSilent
<1>5. ASSUME Ticked(adapter, b)
      PROVE  Recalled(b) /\ (Voiced(adapter) => Voiced(b))
  BY <1>1, <1>5, TickSilent
<1>6. \/ \E evidence \in BOOLEAN : b \in PollOutcomes(adapter, evidence, TRUE)
      \/ \E seq, response : b = Responded(adapter, seq, response, TRUE)
      \/ b = PromptStarted(adapter)
      \/ Ticked(adapter, b)
      \/ b = adapter
  <2>1. \A sent \in BOOLEAN : sent => sent = TRUE
    OBVIOUS
  <2>. QED
    BY <2>1, StepIs
<1>. QED
  BY <1>1, <1>2, <1>3, <1>4, <1>5, <1>6

(* UnannouncedThreeWays (SilentOnlyThreeWays): while the agent lives, only *)
(* a refused answer, a write-in typed past a pending request and an answer *)
(* that outran the poll leave a dialog the adapter has read unannounced.   *)
THEOREM UnannouncedThreeWays == Spec => SilentOnlyThreeWays
<1>. DEFINE Inv == /\ Buffered(adapter) /\ terminal \in Screens
                   /\ alive => Recalled(adapter)
<1>1. Init => Inv
  BY InitAdapter DEF Recalled, Init, Plain, IsBlocking, NewAdapter
<1>2. Inv /\ [Next]_vars => Inv'
  <2>. SUFFICES ASSUME Inv, [Next]_vars PROVE Inv'
    OBVIOUS
  <2>1. Buffered(adapter)' /\ (terminal \in Screens)'
    BY StepNumbers
  <2>2. ASSUME alive' PROVE Recalled(adapter)'
    <3>1. PICK b : b = adapter'
      OBVIOUS
    <3>2. Recalled(b)
      BY <2>2, <3>1, StepSilent DEF Buffered
    <3>. QED
      BY <3>1, <3>2 DEF Recalled
  <2>. QED
    BY <2>1, <2>2
<1>3. Inv /\ [Next]_vars
        => [Announced /\ ~Announced' =>
              RefusedForAnother \/ WrittenPastAnother \/ AskedFromMemory]_vars
  <2>. SUFFICES ASSUME Inv, [Next]_vars, Announced, ~Announced'
                PROVE  RefusedForAnother \/ WrittenPastAnother \/ AskedFromMemory
    OBVIOUS
  <2>1. PICK b : b = adapter'
    OBVIOUS
  <2>2. alive' /\ ~Voiced(b)
    BY <2>1 DEF Announced, Voiced, IsFinished
  <2>3. /\ alive
        /\ Voiced(adapter) /\ ~Voiced(b)
            => Refused(adapter, b) \/ Past(adapter, b) \/ FromMemory(adapter, b)
    BY <2>1, <2>2, StepSilent DEF Buffered
  <2>4. Voiced(adapter)
    BY <2>3 DEF Announced, Voiced, IsFinished
  <2>. QED
    BY <2>1, <2>2, <2>3, <2>4
       DEF Refused, Past, FromMemory, RefusedForAnother, WrittenPastAnother,
           AskedFromMemory
<1>. HIDE DEF Inv
<1>. QED
  BY <1>1, <1>2, <1>3, PTL DEF Spec, SilentOnlyThreeWays

=============================================================================
