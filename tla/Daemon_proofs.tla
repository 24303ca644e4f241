---------------------------- MODULE Daemon_proofs -----------------------------
(***************************************************************************)
(* Theorems about the daemon, for any dialogs, numbers of events, commands *)
(* and capacities of its channels: the word of a delivery is never lost and*)
(* never comes twice, a decision is typed exactly once, and only into the  *)
(* dialog it was made for; and the request the adapter has pending is one  *)
(* the clients can answer.                                                 *)
(*                                                                         *)
(* The argument: the core sends a command as it puts a request in delivery;*)
(* the loop turns a command into one outcome and hands it on without doing *)
(* anything else in between; the core takes the outcome.  So the places an *)
(* answer can be in hold exactly one while the request is in delivery, and *)
(* what is in them tells what was typed: this is the invariant Good.  The  *)
(* numbers of the adapter only grow, so the number of the pending request  *)
(* is that of one event, and of one dialog: this is the invariant Own.     *)
(* Nothing that outdates the pending request is told after it, and what is *)
(* told keeps its order up to the queue: this is the invariant Ask.        *)
(***************************************************************************)
EXTENDS Daemon, CoreTask_proofs, FiniteSetTheorems

-----------------------------------------------------------------------------
(* Places in a sequence.                                                   *)

LEMMA PlacesFinite ==
  ASSUME NEW S, NEW s \in Seq(S), NEW type, NEW id
  PROVE  /\ IsFiniteSet(Places(s, type, id))
         /\ Cardinality(Places(s, type, id)) \in Nat
         /\ Cardinality(Places(s, type, id)) = 0
              <=> \A i \in DOMAIN s : ~(s[i].type = type /\ s[i].id = id)
<1>. DEFINE P == Places(s, type, id)
<1>1. PICK n \in Nat : DOMAIN s = 1..n
  OBVIOUS
<1>2. IsFiniteSet(1..n)
  BY FS_Interval
<1>3. P \subseteq 1..n
  BY <1>1 DEF Places
<1>4. IsFiniteSet(P)
  BY <1>2, <1>3, FS_Subset
<1>5. Cardinality(P) \in Nat /\ (Cardinality(P) = 0 <=> P = {})
  BY <1>4, FS_CardinalityType, FS_EmptySet
<1>6. P = {} <=> \A i \in DOMAIN s : ~(s[i].type = type /\ s[i].id = id)
  BY DEF Places
<1>. QED
  BY <1>4, <1>5, <1>6

LEMMA PlacesAppend ==
  ASSUME NEW S, NEW s \in Seq(S), NEW e, NEW type, NEW id
  PROVE  Cardinality(Places(Append(s, e), type, id))
           = Cardinality(Places(s, type, id))
               + IF e.type = type /\ e.id = id THEN 1 ELSE 0
<1>. DEFINE U == S \cup {e}
            P == Places(s, type, id)
<1>1. s \in Seq(U) /\ e \in U
  OBVIOUS
<1>2. PICK n \in Nat : n = Len(s) /\ DOMAIN s = 1..n
  OBVIOUS
<1>3. PICK t \in Seq(U) : t = Append(s, e)
  BY <1>1, AppendProperties
<1>4. /\ DOMAIN t = 1..(n + 1) /\ t[n + 1] = e
      /\ \A i \in 1..n : t[i] = s[i]
  <2>1. /\ Len(t) = n + 1 /\ t[n + 1] = e
        /\ \A i \in 1..n : t[i] = s[i]
    BY <1>1, <1>2, <1>3, AppendProperties
  <2>. QED
    BY <2>1
<1>5. Places(t, type, id)
        = IF e.type = type /\ e.id = id THEN P \cup {n + 1} ELSE P
  BY <1>2, <1>4 DEF Places
<1>6. n + 1 \notin P
  BY <1>2 DEF Places
<1>7. IsFiniteSet(P) /\ Cardinality(P) \in Nat
  BY PlacesFinite
<1>. HIDE DEF P
<1>8. Cardinality(P \cup {n + 1}) = Cardinality(P) + 1
  BY <1>6, <1>7, FS_AddElement
<1>. QED
  BY <1>3, <1>5, <1>7, <1>8 DEF P

LEMMA PlacesTail ==
  ASSUME NEW S, NEW s \in Seq(S), s # <<>>, NEW type, NEW id
  PROVE  Cardinality(Places(s, type, id))
           = Cardinality(Places(Tail(s), type, id))
               + IF Head(s).type = type /\ Head(s).id = id THEN 1 ELSE 0
<1>. DEFINE P == Places(s, type, id)
            Q == Places(Tail(s), type, id)
            R == P \ {1}
<1>1. PICK m \in Nat : m = Len(s) /\ m > 0 /\ DOMAIN s = 1..m
  OBVIOUS
<1>2. /\ Head(s) = s[1] /\ DOMAIN Tail(s) = 1..(m - 1)
      /\ \A i \in 1..(m - 1) : Tail(s)[i] = s[i + 1]
  <2>1. Len(Tail(s)) = m - 1 /\ Head(s) = s[1]
        /\ \A i \in 1..Len(Tail(s)) : Tail(s)[i] = s[i + 1]
    BY <1>1, HeadTailProperties
  <2>2. Tail(s) \in Seq(S)
    BY HeadTailProperties
  <2>. QED
    BY <1>1, <2>1, <2>2
<1>3. Q \subseteq 1..(m - 1) /\ R \subseteq 2..m
  BY <1>1, <1>2 DEF Places
<1>4. \A i \in 1..(m - 1) : i \in Q <=> i + 1 \in R
  <2>. TAKE i \in 1..(m - 1)
  <2>1. i + 1 \in 1..m /\ i + 1 # 1
    OBVIOUS
  <2>. QED
    BY <1>1, <1>2, <2>1 DEF Places
<1>5. IsFiniteSet(P) /\ IsFiniteSet(Q) /\ Cardinality(P) \in Nat
      /\ Cardinality(Q) \in Nat
  <2>1. Tail(s) \in Seq(S)
    BY HeadTailProperties
  <2>. QED
    BY <2>1, PlacesFinite
<1>6. 1 \in P <=> Head(s).type = type /\ Head(s).id = id
  BY <1>1, <1>2 DEF Places
<1>. HIDE DEF P, Q
<1>7. IsFiniteSet(R)
      /\ Cardinality(R) = IF 1 \in P THEN Cardinality(P) - 1 ELSE Cardinality(P)
  BY <1>5, FS_RemoveElement
<1>8. Cardinality(Q) = Cardinality(R)
  <2>. DEFINE f == [i \in Q |-> i + 1]
  <2>1. f \in Bijection(Q, R)
    <3>1. \A i \in Q : i \in 1..(m - 1) /\ f[i] = i + 1 /\ f[i] \in R
      BY <1>3, <1>4
    <3>2. \A i, j \in Q : f[i] = f[j] => i = j
      BY <3>1
    <3>3. ASSUME NEW k \in R PROVE \E i \in Q : f[i] = k
      <4>1. k \in 2..m
        BY <1>3
      <4>2. k - 1 \in 1..(m - 1) /\ (k - 1) + 1 = k
        BY <4>1
      <4>3. k - 1 \in Q
        BY <1>4, <4>2
      <4>. QED
        BY <4>2, <4>3
    <3>4. f \in [Q -> R]
      BY <3>1
    <3>. HIDE DEF f
    <3>. QED
      BY <3>2, <3>3, <3>4 DEF Bijection, Injection, Surjection, IsInjective
  <2>. HIDE DEF f
  <2>. QED
    BY <1>5, <2>1, FS_Bijection DEF ExistsBijection
<1>. QED
  BY <1>5, <1>6, <1>7, <1>8 DEF P, Q

-----------------------------------------------------------------------------
(* The adapter: numbers and the pending request.                           *)

AgentKinds == {"started", "approval_required", "input_required", "progress",
               "task_completed", "command_failed", "adapter_error"}

Told == [kind : AgentKinds, seq : Nat]

Below(s, n) == \A i \in DOMAIN s : s[i].seq <= n

Fields == {"life", "work", "seq", "generation", "screen", "current", "pending",
           "outcome", "consumed", "writeIn", "prompted", "buffer", "out", "typed"}

(* A request has a number that was given, and is for a dialog.             *)
RequestTyped(p, seq) ==
  /\ DOMAIN p = {"generation", "seq", "screen"}
  /\ p.seq \in 0..seq /\ Agent!IsBlocking(p.screen)

IsAdapter(a) ==
  /\ DOMAIN a = Fields
  /\ a.seq \in Nat /\ a.out \in Seq(Told) /\ a.buffer \in Seq(Told)
  /\ Below(a.out, a.seq) /\ Below(a.buffer, a.seq)
  /\ a.pending # None => RequestTyped(a.pending, a.seq)

(* What any stage of the adapter does: numbers only grow, and a request    *)
(* that is pending then was pending before, for the same dialog, or has a  *)
(* new number.                                                             *)
Evolves(a, b) ==
  /\ IsAdapter(b) /\ a.seq <= b.seq
  /\ b.pending # None =>
       \/ /\ a.pending # None /\ b.pending.seq = a.pending.seq
          /\ Agent!SameRequest(a.pending.screen, b.pending.screen)
       \/ a.seq < b.pending.seq

Kept(a, b) ==
  /\ DOMAIN b = DOMAIN a /\ b.seq = a.seq /\ b.out = a.out
  /\ b.buffer = a.buffer /\ b.pending = a.pending

LEMMA KeptEvolves ==
  ASSUME NEW a, IsAdapter(a), NEW b, Kept(a, b)
  PROVE  Evolves(a, b)
BY DEF Evolves, Kept, IsAdapter, RequestTyped, Agent!SameRequest

LEMMA EvolvesOn ==
  ASSUME NEW a, IsAdapter(a), NEW b, NEW c, Evolves(a, b), Evolves(b, c)
  PROVE  Evolves(a, c)
<1>1. a.seq \in Nat /\ b.seq \in Nat /\ c.seq \in Nat /\ a.seq <= c.seq
  BY DEF Evolves, IsAdapter
<1>2. c.pending # None => c.pending.seq \in Nat
  BY <1>1 DEF Evolves, IsAdapter, RequestTyped
<1>. QED
  BY <1>1, <1>2 DEF Evolves, Agent!SameRequest, Agent!IsBlocking

LEMMA EmitEvolves ==
  ASSUME NEW a, IsAdapter(a), NEW kind \in AgentKinds
  PROVE  LET b == Agent!Emit(a, kind) IN
         /\ Evolves(a, b) /\ b.seq = a.seq + 1 /\ b.pending = a.pending
<1>1. PICK n \in Nat : n = a.seq + 1
  BY DEF IsAdapter
<1>2. PICK e \in Told : e = [kind |-> kind, seq |-> n]
  BY DEF Told
<1>3. PICK o \in Seq(Told) : o = Append(a.out, e)
  BY AppendProperties DEF IsAdapter
<1>4. PICK b : b = Agent!Emit(a, kind)
  OBVIOUS
<1>5. b = [a EXCEPT !.seq = n, !.out = o]
  BY <1>1, <1>2, <1>3, <1>4 DEF Agent!Emit, IsAdapter, Fields
<1>6. /\ DOMAIN b = Fields /\ b.seq = n /\ b.out = o /\ b.buffer = a.buffer
      /\ b.pending = a.pending
  BY <1>5 DEF IsAdapter, Fields
<1>7. Below(o, n)
  <2>1. PICK m \in Nat : m = Len(a.out) /\ DOMAIN a.out = 1..m
    BY DEF IsAdapter
  <2>2. /\ DOMAIN o = 1..(m + 1) /\ o[m + 1] = e
        /\ \A i \in 1..m : o[i] = a.out[i]
    <3>1. /\ Len(o) = m + 1 /\ o[m + 1] = e
          /\ \A i \in 1..m : o[i] = a.out[i]
      BY <1>3, <2>1, AppendProperties DEF IsAdapter
    <3>. QED
      BY <3>1
  <2>3. ASSUME NEW i \in 1..m PROVE o[i].seq <= n
    <3>1. a.out[i] \in Told /\ a.out[i].seq <= a.seq
      BY <2>1 DEF IsAdapter, Below
    <3>. QED
      BY <1>1, <2>2, <3>1 DEF IsAdapter, Told
  <2>. QED
    BY <1>2, <2>2, <2>3 DEF Below
<1>8. Below(a.buffer, n)
  <2>1. ASSUME NEW i \in DOMAIN a.buffer PROVE a.buffer[i].seq <= n
    <3>1. a.buffer[i] \in Told /\ a.buffer[i].seq <= a.seq
      BY DEF IsAdapter, Below
    <3>. QED
      BY <1>1, <3>1 DEF IsAdapter, Told
  <2>. QED
    BY <2>1 DEF Below
<1>9. a.pending # None => RequestTyped(a.pending, n)
  BY <1>1 DEF IsAdapter, RequestTyped
<1>10. IsAdapter(b)
  BY <1>3, <1>6, <1>7, <1>8, <1>9 DEF IsAdapter
<1>11. Evolves(a, b)
  BY <1>1, <1>6, <1>9, <1>10 DEF Evolves, IsAdapter, Agent!SameRequest, RequestTyped
<1>. QED
  BY <1>1, <1>4, <1>6, <1>11

LEMMA AtKept ==
  ASSUME NEW a, IsAdapter(a), NEW life, NEW work
  PROVE  Kept(a, Agent!At(a, life)) /\ Kept(a, Agent!Busy(a, work))
BY DEF Kept, Agent!At, Agent!Busy, IsAdapter, Fields

LEMMA ExpireEvolves ==
  ASSUME NEW a, IsAdapter(a)
  PROVE  Evolves(a, Agent!ExpirePending(a)) /\ Agent!ExpirePending(a).seq = a.seq
<1>1. CASE a.pending = None
  BY <1>1, KeptEvolves DEF Kept, Agent!ExpirePending
<1>2. CASE a.pending # None
  <2>1. PICK b : b = [a EXCEPT !.pending = None, !.outcome = "Expired"]
    OBVIOUS
  <2>2. /\ DOMAIN b = DOMAIN a /\ b.seq = a.seq /\ b.out = a.out
        /\ b.buffer = a.buffer /\ b.pending = None
    BY <2>1 DEF IsAdapter, Fields
  <2>. QED
    BY <1>2, <2>1, <2>2 DEF Agent!ExpirePending, Evolves, IsAdapter
<1>. QED
  BY <1>1, <1>2

(* A request is opened under the next number, or the pending one goes on.  *)
LEMMA OpenEvolves ==
  ASSUME NEW a, IsAdapter(a), NEW s, Agent!IsBlocking(s)
  PROVE  Evolves(a, Agent!OpenRequest(a, s))
<1>1. CASE a.pending # None /\ Agent!SameRequest(a.pending.screen, s)
  <2>1. PICK p : p = [a.pending EXCEPT !.screen = s]
    OBVIOUS
  <2>2. PICK b : b = [a EXCEPT !.pending = p]
    OBVIOUS
  <2>3. /\ DOMAIN p = {"generation", "seq", "screen"}
        /\ p.seq = a.pending.seq /\ p.screen = s
    BY <1>1, <2>1 DEF IsAdapter, RequestTyped
  <2>4. /\ DOMAIN b = Fields /\ b.seq = a.seq /\ b.out = a.out
        /\ b.buffer = a.buffer /\ b.pending = p
    BY <2>2 DEF IsAdapter, Fields
  <2>5. RequestTyped(p, a.seq)
    BY <1>1, <2>3 DEF IsAdapter, RequestTyped
  <2>6. Evolves(a, b)
    BY <1>1, <2>3, <2>4, <2>5 DEF Evolves, IsAdapter
  <2>7. Evolves(a, Agent!At(b, "Blocked"))
    BY <2>6, AtKept, KeptEvolves, EvolvesOn DEF Evolves
  <2>8. b = [a EXCEPT !.pending.screen = s]
    BY <2>1, <2>2
  <2>. QED
    BY <1>1, <2>7, <2>8 DEF Agent!OpenRequest
<1>2. CASE ~(a.pending # None /\ Agent!SameRequest(a.pending.screen, s))
           /\ Agent!InGrace(a, s)
  BY <1>2, KeptEvolves DEF Kept, Agent!OpenRequest
<1>3. CASE ~(a.pending # None /\ Agent!SameRequest(a.pending.screen, s))
           /\ ~Agent!InGrace(a, s)
  <2>1. PICK b : b = [a EXCEPT !.consumed = None]
    OBVIOUS
  <2>2. Evolves(a, b)
    BY <2>1, KeptEvolves DEF Kept, IsAdapter, Fields
  <2>3. PICK c : c = Agent!ExpirePending(b)
    OBVIOUS
  <2>4. Evolves(a, c)
    BY <2>2, <2>3, ExpireEvolves, EvolvesOn DEF Evolves
  <2>5. PICK d : d = Agent!At(c, "Blocked")
    OBVIOUS
  <2>6. Evolves(a, d)
    BY <2>4, <2>5, AtKept, KeptEvolves, EvolvesOn DEF Evolves
  <2>7. PICK kind \in AgentKinds : kind = Agent!RequestKind(s)
    BY DEF AgentKinds, Agent!RequestKind
  <2>8. PICK e : e = Agent!Emit(d, kind)
    OBVIOUS
  <2>9. Evolves(a, e) /\ e.seq = d.seq + 1 /\ IsAdapter(e) /\ IsAdapter(d)
    BY <2>6, <2>7, <2>8, EmitEvolves, EvolvesOn DEF Evolves
  <2>10. PICK p : p = [generation |-> e.generation + 1, seq |-> e.seq, screen |-> s]
    OBVIOUS
  <2>11. PICK f : f = [e EXCEPT !.generation = e.generation + 1, !.pending = p]
    OBVIOUS
  <2>12. /\ DOMAIN f = Fields /\ f.seq = e.seq /\ f.out = e.out
         /\ f.buffer = e.buffer /\ f.pending = p
    BY <2>9, <2>11 DEF IsAdapter, Fields
  <2>13. Agent!OpenRequest(a, s) = f
    <3>1. Agent!OpenRequest(a, s)
            = [e EXCEPT !.generation = @ + 1,
                        !.pending = [generation |-> e.generation + 1,
                                     seq |-> e.seq, screen |-> s]]
      BY <1>3, <2>1, <2>3, <2>5, <2>7, <2>8 DEF Agent!OpenRequest
    <3>. QED
      BY <2>10, <2>11, <3>1
  <2>14. a.seq \in Nat /\ e.seq \in Nat /\ a.seq < e.seq
    BY <2>6, <2>9 DEF Evolves, IsAdapter
  <2>15. RequestTyped(p, e.seq) /\ p.seq = e.seq
    BY <2>10, <2>14 DEF RequestTyped
  <2>16. IsAdapter(f)
    BY <2>9, <2>12, <2>15 DEF IsAdapter
  <2>. QED
    BY <2>12, <2>13, <2>14, <2>15, <2>16 DEF Evolves
<1>. QED
  BY <1>1, <1>2, <1>3

LEMMA EmitOn ==
  ASSUME NEW a, IsAdapter(a), NEW b, Evolves(a, b), NEW kind \in AgentKinds
  PROVE  Evolves(a, Agent!Emit(b, kind))
<1>1. Evolves(b, Agent!Emit(b, kind))
  BY EmitEvolves DEF Evolves
<1>. QED
  BY <1>1, EvolvesOn

LEMMA KeptOn ==
  ASSUME NEW a, IsAdapter(a), NEW b, Evolves(a, b), NEW c, Kept(b, c)
  PROVE  Evolves(a, c)
<1>1. Evolves(b, c)
  BY KeptEvolves DEF Evolves
<1>. QED
  BY <1>1, EvolvesOn

LEMMA FieldKept ==
  ASSUME NEW a, IsAdapter(a), NEW x, NEW y
  PROVE  /\ Kept(a, a) /\ Kept(a, [a EXCEPT !.writeIn = x])
         /\ Kept(a, [a EXCEPT !.prompted = x])
         /\ Kept(a, [a EXCEPT !.screen = x])
         /\ Kept(a, [a EXCEPT !.current = x])
         /\ Kept(a, [a EXCEPT !.consumed = x])
         /\ Kept(a, [a EXCEPT !.consumed = x, !.typed = y])
BY DEF Kept, IsAdapter, Fields

LEMMA WriteInEvolves ==
  ASSUME NEW a, IsAdapter(a), NEW s, NEW sent
  PROVE  /\ Evolves(a, Agent!CompleteWriteIn(a, s, sent))
         /\ Evolves(a, Agent!DropWriteIn(a, s))
         /\ Evolves(a, Agent!ForgetLateWriteIn(a))
<1>1. Evolves(a, a)
  BY FieldKept, KeptEvolves
<1>. PICK b : b = [a EXCEPT !.writeIn = None]
  OBVIOUS
<1>2. Evolves(a, b) /\ IsAdapter(b)
  BY FieldKept, KeptEvolves DEF Evolves
<1>3. PICK c : c = [b EXCEPT !.consumed = [screen |-> s, over |-> FALSE,
                                           opens |-> FALSE],
                             !.typed = [what |-> "text", seq |-> 0, into |-> s]]
  OBVIOUS
<1>4. Evolves(a, c) /\ IsAdapter(c)
  BY <1>2, <1>3, FieldKept, KeptOn DEF Evolves
<1>5. Evolves(a, Agent!At(b, "Exited")) /\ Evolves(a, Agent!Busy(c, "write_in"))
  BY <1>2, <1>4, AtKept, KeptOn
<1>. QED
  BY <1>1, <1>2, <1>3, <1>5
     DEF Agent!CompleteWriteIn, Agent!DropWriteIn, Agent!ForgetLateWriteIn

LEMMA FinishEvolves ==
  ASSUME NEW a, IsAdapter(a), NEW evidence
  PROVE  Evolves(a, Agent!Finish(a, evidence))
<1>. PICK b : b = [a EXCEPT !.prompted = FALSE]
  OBVIOUS
<1>1. Evolves(a, b) /\ IsAdapter(b)
  BY FieldKept, KeptEvolves DEF Evolves
<1>. PICK c : c = Agent!At(b, "Running")
  OBVIOUS
<1>2. Evolves(a, c)
  BY <1>1, AtKept, KeptOn
<1>3. Evolves(a, Agent!Emit(c, "task_completed"))
  BY <1>2, EmitOn DEF AgentKinds
<1>. QED
  BY <1>2, <1>3 DEF Agent!Finish

LEMMA TransitionEvolves ==
  ASSUME NEW a, IsAdapter(a), NEW s, NEW evidence, NEW sent
  PROVE  Evolves(a, Agent!HandleTransition(a, s, evidence, sent))
<1>1. CASE Agent!IsBlocking(s)
  <2>1. PICK b : b = Agent!DropWriteIn(a, s)
    OBVIOUS
  <2>2. Evolves(a, b) /\ IsAdapter(b)
    BY <2>1, WriteInEvolves DEF Evolves
  <2>3. Evolves(a, Agent!OpenRequest(b, s))
    BY <1>1, <2>2, OpenEvolves, EvolvesOn
  <2>. QED
    BY <1>1, <2>1, <2>3, WriteInEvolves DEF Agent!HandleTransition
<1>2. CASE ~Agent!IsBlocking(s)
  <2>1. PICK b : b = Agent!ExpirePending(a)
    OBVIOUS
  <2>2. PICK c : c = [b EXCEPT !.writeIn = None]
    OBVIOUS
  <2>3. Evolves(a, b) /\ IsAdapter(b)
    BY <2>1, ExpireEvolves DEF Evolves
  <2>4. Evolves(a, c) /\ IsAdapter(c)
    BY <2>2, <2>3, FieldKept, KeptOn DEF Evolves
  <2>5. /\ Evolves(a, Agent!Busy(b, s.id))
        /\ Evolves(a, Agent!At(c, "Exited")) /\ Evolves(a, Agent!At(c, "Running"))
    BY <2>3, <2>4, AtKept, KeptOn
  <2>6. /\ Evolves(a, Agent!Emit(Agent!Busy(b, s.id), "progress"))
        /\ Evolves(a, Agent!Emit(Agent!At(c, "Exited"), "command_failed"))
    BY <2>5, EmitOn DEF AgentKinds
  <2>7. Evolves(a, Agent!Finish(c, evidence))
    BY <2>4, FinishEvolves, EvolvesOn
  <2>8. PICK r : r = Agent!HandleTransition(a, s, evidence, sent)
    OBVIOUS
  <2>9. r \in {b, c, Agent!Emit(Agent!Busy(b, s.id), "progress"),
               Agent!Finish(c, evidence), Agent!At(c, "Running"),
               Agent!Emit(Agent!At(c, "Exited"), "command_failed")}
    <3>1. r = CASE s.kind = "Working" ->
                     IF b.life = "Working" /\ b.work = s.id THEN b
                     ELSE Agent!Emit(Agent!Busy(b, s.id), "progress")
                [] s.kind = "Completed" -> Agent!Finish(c, evidence)
                [] s.kind = "FatalError" ->
                     IF b.life = "Exited" THEN c
                     ELSE Agent!Emit(Agent!At(c, "Exited"), "command_failed")
                [] s.kind = "IdlePrompt" ->
                     IF b.life = "Working" \/ b.prompted
                     THEN Agent!Finish(c, evidence)
                     ELSE Agent!At(c, "Running")
                [] OTHER -> b
      BY <1>2, <2>1, <2>2, <2>8 DEF Agent!HandleTransition
    <3>. QED
      BY <3>1
  <2>. QED
    BY <2>3, <2>4, <2>5, <2>6, <2>7, <2>8, <2>9
<1>. QED
  BY <1>1, <1>2

LEMMA BeginEvolves ==
  ASSUME NEW a, IsAdapter(a)
  PROVE  Evolves(a, Agent!Begin([a EXCEPT !.out = <<>>]))
<1>1. PICK o \in Seq(Told) : o = <<>> \o a.buffer
  BY EmptySeq, ConcatProperties DEF IsAdapter
<1>2. o = a.buffer
  BY <1>1 DEF IsAdapter
<1>3. PICK e \in Seq(Told) : e = <<>>
  BY EmptySeq
<1>4. PICK c : c = [a EXCEPT !.out = <<>>]
  OBVIOUS
<1>5. DOMAIN c = Fields /\ c.out = <<>> /\ c.buffer = a.buffer
      /\ c.seq = a.seq /\ c.pending = a.pending
  BY <1>4 DEF IsAdapter, Fields
<1>6. PICK b : b = [c EXCEPT !.out = o, !.buffer = e, !.typed = None]
  OBVIOUS
<1>7. DOMAIN b = Fields /\ b.out = a.buffer /\ b.buffer = e
      /\ b.seq = a.seq /\ b.pending = a.pending
  BY <1>2, <1>5, <1>6 DEF Fields
<1>8. Below(e, a.seq)
  BY <1>3 DEF Below
<1>9. IsAdapter(b)
  BY <1>7, <1>8 DEF IsAdapter
<1>10. Evolves(a, b)
  BY <1>7, <1>9 DEF Evolves, IsAdapter, RequestTyped, Agent!SameRequest
<1>11. b = [c EXCEPT !.out = @ \o c.buffer, !.buffer = <<>>, !.typed = None]
  BY <1>1, <1>3, <1>5, <1>6 DEF Fields
<1>12. Evolves(a, Agent!At(b, "Starting"))
  BY <1>9, <1>10, AtKept, KeptOn
<1>13. Evolves(a, Agent!Emit(Agent!At(b, "Starting"), "started"))
  BY <1>12, EmitOn DEF AgentKinds
<1>. QED
  BY <1>4, <1>10, <1>11, <1>13 DEF Agent!Begin

(* Whatever a poll finds on the screen, and whatever it then does.         *)
LEMMA PollEvolves ==
  ASSUME IsAdapter(adapter), NEW evidence, NEW sent,
         NEW b \in Agent!PollOutcomes(adapter, evidence, sent)
  PROVE  Evolves(adapter, b)
<1>. DEFINE a == adapter
<1>1. PICK c : c = Agent!Begin([a EXCEPT !.out = <<>>])
  OBVIOUS
<1>2. PICK d : d = Agent!Look(c, evidence, sent)
  OBVIOUS
<1>3. PICK e : e = Agent!ForgetLateWriteIn(d)
  OBVIOUS
<1>4. PICK f : f = Agent!Resurface(e)
  OBVIOUS
<1>5. b = Agent!NoticeDeath(f)
  BY <1>1, <1>2, <1>3, <1>4 DEF Agent!PollOutcomes
<1>6. Evolves(a, c) /\ IsAdapter(c)
  BY <1>1, BeginEvolves DEF Evolves
<1>7. Evolves(c, d)
  <2>1. PICK g : g = [c EXCEPT !.screen = terminal]
    OBVIOUS
  <2>2. PICK h : h = [g EXCEPT !.current = terminal]
    OBVIOUS
  <2>3. Evolves(c, c) /\ Evolves(c, g) /\ IsAdapter(g)
    BY <1>6, <2>1, FieldKept, KeptEvolves DEF Evolves
  <2>4. Evolves(c, h) /\ IsAdapter(h)
    BY <1>6, <2>2, <2>3, FieldKept, KeptOn DEF Evolves
  <2>5. Evolves(c, Agent!HandleTransition(h, terminal, evidence, sent))
    BY <1>6, <2>4, TransitionEvolves, EvolvesOn
  <2>. QED
    BY <1>2, <2>1, <2>2, <2>3, <2>5 DEF Agent!Look
<1>8. Evolves(a, d) /\ IsAdapter(d)
  BY <1>6, <1>7, EvolvesOn DEF Evolves
<1>9. Evolves(a, e) /\ IsAdapter(e)
  <2>1. Evolves(d, e)
    BY <1>3, <1>8, WriteInEvolves
  <2>. QED
    BY <1>8, <2>1, EvolvesOn DEF Evolves
<1>10. Evolves(a, f) /\ IsAdapter(f)
  <2>1. CASE f = e
    BY <1>9, <2>1
  <2>2. CASE f # e
    <3>1. Agent!IsBlocking(e.current) /\ f = Agent!OpenRequest(e, e.current)
      BY <1>4, <2>2 DEF Agent!Resurface
    <3>2. Evolves(e, f)
      BY <1>9, <3>1, OpenEvolves
    <3>. QED
      BY <1>9, <3>2, EvolvesOn DEF Evolves
  <2>. QED
    BY <2>1, <2>2
<1>11. CASE b = f
  BY <1>10, <1>11
<1>12. CASE b # f
  <2>1. PICK g : g = Agent!At(f, "Exited")
    OBVIOUS
  <2>2. PICK h : h = Agent!ExpirePending(g)
    OBVIOUS
  <2>3. PICK k : k = [h EXCEPT !.writeIn = None]
    OBVIOUS
  <2>4. b = Agent!Emit(k, "adapter_error")
    BY <1>5, <1>12, <2>1, <2>2, <2>3 DEF Agent!NoticeDeath
  <2>5. Evolves(a, g) /\ IsAdapter(g)
    BY <1>10, <2>1, AtKept, KeptOn DEF Evolves
  <2>6. Evolves(a, h) /\ IsAdapter(h)
    <3>1. Evolves(g, h)
      BY <2>2, <2>5, ExpireEvolves
    <3>. QED
      BY <2>5, <3>1, EvolvesOn DEF Evolves
  <2>7. Evolves(a, k)
    BY <2>3, <2>6, FieldKept, KeptOn
  <2>. QED
    BY <2>4, <2>7, EmitOn DEF AgentKinds
<1>. QED
  BY <1>11, <1>12

(* One more event waits in the buffer for the next poll.                   *)
LEMMA BufferEvolves ==
  ASSUME NEW a, IsAdapter(a), NEW kind \in AgentKinds
  PROVE  Evolves(a, [a EXCEPT !.seq = @ + 1,
                              !.buffer = Append(@, [kind |-> kind,
                                                    seq |-> a.seq + 1])])
<1>1. PICK n \in Nat : n = a.seq + 1
  BY DEF IsAdapter
<1>2. PICK e \in Told : e = [kind |-> kind, seq |-> n]
  BY DEF Told
<1>3. PICK o \in Seq(Told) : o = Append(a.buffer, e)
  BY AppendProperties DEF IsAdapter
<1>4. PICK b : b = [a EXCEPT !.seq = n, !.buffer = o]
  OBVIOUS
<1>5. b = [a EXCEPT !.seq = @ + 1,
                    !.buffer = Append(@, [kind |-> kind, seq |-> a.seq + 1])]
  BY <1>1, <1>2, <1>3, <1>4 DEF IsAdapter, Fields
<1>6. /\ DOMAIN b = Fields /\ b.seq = n /\ b.out = a.out /\ b.buffer = o
      /\ b.pending = a.pending
  BY <1>4 DEF IsAdapter, Fields
<1>7. Below(o, n)
  <2>1. PICK m \in Nat : m = Len(a.buffer) /\ DOMAIN a.buffer = 1..m
    BY DEF IsAdapter
  <2>2. /\ DOMAIN o = 1..(m + 1) /\ o[m + 1] = e
        /\ \A i \in 1..m : o[i] = a.buffer[i]
    <3>1. /\ Len(o) = m + 1 /\ o[m + 1] = e
          /\ \A i \in 1..m : o[i] = a.buffer[i]
      BY <1>3, <2>1, AppendProperties DEF IsAdapter
    <3>. QED
      BY <3>1
  <2>3. ASSUME NEW i \in 1..m PROVE o[i].seq <= n
    <3>1. a.buffer[i] \in Told /\ a.buffer[i].seq <= a.seq
      BY <2>1 DEF IsAdapter, Below
    <3>. QED
      BY <1>1, <2>2, <3>1 DEF IsAdapter, Told
  <2>. QED
    BY <1>2, <2>2, <2>3 DEF Below
<1>8. Below(a.out, n)
  <2>1. ASSUME NEW i \in DOMAIN a.out PROVE a.out[i].seq <= n
    <3>1. a.out[i] \in Told /\ a.out[i].seq <= a.seq
      BY DEF IsAdapter, Below
    <3>. QED
      BY <1>1, <3>1 DEF IsAdapter, Told
  <2>. QED
    BY <2>1 DEF Below
<1>9. a.pending # None => RequestTyped(a.pending, n)
  BY <1>1 DEF IsAdapter, RequestTyped
<1>10. IsAdapter(b)
  BY <1>3, <1>6, <1>7, <1>8, <1>9 DEF IsAdapter
<1>11. Evolves(a, b)
  BY <1>1, <1>6, <1>9, <1>10 DEF Evolves, IsAdapter, Agent!SameRequest, RequestTyped
<1>. QED
  BY <1>5, <1>11

LEMMA QuietEvolves ==
  ASSUME NEW a, IsAdapter(a)
  PROVE  Evolves(a, Agent!Quiet(a))
<1>1. PICK e \in Seq(Told) : e = <<>>
  BY EmptySeq
<1>2. PICK b : b = [a EXCEPT !.out = e, !.typed = None]
  OBVIOUS
<1>3. DOMAIN b = Fields /\ b.out = e /\ b.buffer = a.buffer
      /\ b.seq = a.seq /\ b.pending = a.pending
  BY <1>2 DEF IsAdapter, Fields
<1>4. Below(e, a.seq)
  BY <1>1 DEF Below
<1>5. IsAdapter(b)
  BY <1>3, <1>4 DEF IsAdapter
<1>6. Evolves(a, b)
  BY <1>3, <1>5 DEF Evolves, IsAdapter, RequestTyped, Agent!SameRequest
<1>. QED
  BY <1>1, <1>2, <1>6 DEF Agent!Quiet

LEMMA PromptEvolves ==
  ASSUME NEW a, IsAdapter(a)
  PROVE  Evolves(a, Agent!PromptStarted(a))
<1>1. PICK q : q = Agent!Quiet(a)
  OBVIOUS
<1>2. PICK b : b = [q EXCEPT !.prompted = TRUE,
                             !.current = Agent!Working("prompt"),
                             !.typed = [what |-> "prompt", seq |-> 0,
                                        into |-> a.screen]]
  OBVIOUS
<1>3. PICK c : c = Agent!Busy(b, "prompt")
  OBVIOUS
<1>4. Evolves(a, q) /\ IsAdapter(q)
  BY <1>1, QuietEvolves DEF Evolves
<1>5. Kept(q, b)
  BY <1>2, <1>4 DEF Kept, IsAdapter, Fields
<1>6. Evolves(a, b) /\ IsAdapter(b)
  BY <1>4, <1>5, KeptOn DEF Evolves
<1>7. Evolves(a, c) /\ IsAdapter(c)
  BY <1>3, <1>6, AtKept, KeptOn DEF Evolves
<1>8. PICK d : d = [c EXCEPT !.seq = @ + 1,
                             !.buffer = Append(@, [kind |-> "progress",
                                                   seq |-> c.seq + 1])]
  OBVIOUS
<1>9. Evolves(c, d)
  BY <1>7, <1>8, BufferEvolves DEF AgentKinds
<1>10. Evolves(a, d)
  BY <1>7, <1>9, EvolvesOn
<1>11. d = Agent!PromptStarted(a)
  BY <1>1, <1>2, <1>3, <1>8 DEF Agent!PromptStarted
<1>. QED
  BY <1>10, <1>11

(* An answer empties the pending request, and is typed into the live screen. *)
LEMMA AnsweredEvolves ==
  ASSUME NEW a, IsAdapter(a), NEW response
  PROVE  LET b == Agent!Answered(a, response) IN
         /\ Evolves(a, b) /\ b.pending = None
         /\ b.typed.into = Agent!Live(a)
<1>. DEFINE live  == Agent!Live(a)
            opens == Agent!Encoding(live, response) = "open_write_in"
<1>1. PICK w : w = IF opens THEN [question |-> live.id, late |-> FALSE]
                   ELSE a.writeIn
  OBVIOUS
<1>2. PICK t : t = [what |-> "answer", seq |-> a.pending.seq, into |-> live]
  OBVIOUS
<1>3. PICK k : k = [screen |-> live, over |-> FALSE, opens |-> opens]
  OBVIOUS
<1>. PICK work : work = IF opens THEN "opening_write_in" ELSE "answered"
  OBVIOUS
<1>4. PICK b : b = [a EXCEPT !.pending = None, !.outcome = "Consumed",
                             !.consumed = k, !.typed = t, !.writeIn = w]
  OBVIOUS
<1>5. PICK c : c = Agent!Busy(b, work)
  OBVIOUS
<1>6. PICK d : d = [c EXCEPT !.seq = @ + 1,
                             !.buffer = Append(@, [kind |-> "progress",
                                                   seq |-> c.seq + 1])]
  OBVIOUS
<1>7. d = Agent!Answered(a, response)
  <2>1. b = [a EXCEPT
              !.pending = None, !.outcome = "Consumed",
              !.consumed = [screen |-> live, over |-> FALSE, opens |-> opens],
              !.typed = [what |-> "answer", seq |-> a.pending.seq,
                         into |-> live],
              !.writeIn = IF opens
                          THEN [question |-> live.id, late |-> FALSE] ELSE @]
    <3>1. w = IF opens THEN [question |-> live.id, late |-> FALSE]
              ELSE a.writeIn
      BY <1>1
    <3>. HIDE DEF live, opens
    <3>. QED
      BY <3>1, <1>2, <1>3, <1>4 DEF IsAdapter, Fields
  <2>. HIDE <1>1, <1>2, <1>3, <1>4
  <2>. QED
    BY <2>1, <1>5, <1>6 DEF Agent!Answered
<1>. HIDE DEF live, opens
<1>8. /\ DOMAIN b = Fields /\ b.seq = a.seq /\ b.out = a.out
      /\ b.buffer = a.buffer /\ b.pending = None /\ b.typed = t
  BY <1>4 DEF IsAdapter, Fields
<1>9. IsAdapter(b)
  BY <1>8 DEF IsAdapter
<1>10. Evolves(a, b)
  BY <1>8, <1>9 DEF Evolves, IsAdapter
<1>11. Evolves(a, c) /\ IsAdapter(c)
  BY <1>5, <1>9, <1>10, AtKept, KeptOn DEF Evolves
<1>12. Evolves(c, d)
  BY <1>6, <1>11, BufferEvolves DEF AgentKinds
<1>13. Evolves(a, d)
  BY <1>11, <1>12, EvolvesOn
<1>14. c.typed = t /\ c.pending = None
  BY <1>5, <1>8 DEF Agent!Busy, Fields
<1>15. d.typed = t /\ d.pending = None
  BY <1>6, <1>11, <1>14 DEF IsAdapter, Fields
<1>16. d.typed.into = live
  BY <1>2, <1>15
<1>. QED
  BY <1>7, <1>13, <1>15, <1>16 DEF live

LEMMA RespondedEvolves ==
  ASSUME NEW a, IsAdapter(a), NEW seq, NEW response, NEW sent
  PROVE  LET b == Agent!Responded(a, seq, response, sent) IN
         /\ Evolves(a, b)
         /\ Agent!RespondError(a, seq, response, sent) = "ok" =>
              /\ a.pending # None /\ a.pending.seq = seq
              /\ Agent!SameRequest(a.pending.screen, b.typed.into)
<1>1. PICK q : q = Agent!Quiet(a)
  OBVIOUS
<1>2. PICK l : l = Agent!Live(a)
  OBVIOUS
<1>3. PICK b : b = IF Agent!ReadsScreen(a, seq) THEN [q EXCEPT !.screen = l]
                   ELSE q
  OBVIOUS
<1>4. PICK e : e = Agent!RespondError(a, seq, response, sent)
  OBVIOUS
<1>5. PICK r : r = Agent!Responded(a, seq, response, sent)
  OBVIOUS
<1>6. r = CASE e = "ok" -> Agent!Answered(b, response)
            [] e = "disconnected" ->
                 IF ~alive THEN Agent!ExpirePending(b)
                 ELSE Agent!ExpirePending(Agent!At(b, "Exited"))
            [] e = "state_mismatch" /\ a.pending # None ->
                 Agent!ExpirePending([b EXCEPT !.current = l])
            [] OTHER -> b
  BY <1>1, <1>2, <1>3, <1>4, <1>5 DEF Agent!Responded
<1>7. Evolves(a, q) /\ IsAdapter(q)
  BY <1>1, QuietEvolves DEF Evolves
<1>8. Evolves(a, b) /\ IsAdapter(b)
  BY <1>3, <1>7, FieldKept, KeptOn DEF Evolves
<1>9. CASE e = "ok"
  <2>1. r = Agent!Answered(b, response)
    BY <1>6, <1>9
  <2>2. Evolves(b, r) /\ r.typed.into = Agent!Live(b)
    BY <1>8, <2>1, AnsweredEvolves
  <2>3. alive /\ a.pending # None /\ a.pending.seq = seq
        /\ Agent!SameRequest(a.pending.screen, l)
    BY <1>2, <1>4, <1>9 DEF Agent!RespondError
  <2>4. b = [q EXCEPT !.screen = l]
    BY <1>3, <2>3 DEF Agent!ReadsScreen
  <2>5. b.screen = l
    BY <1>7, <2>4 DEF IsAdapter, Fields
  <2>6. Agent!Live(b) = l
    BY <1>2, <2>5 DEF Agent!Live
  <2>7. Evolves(a, r)
    BY <1>8, <2>2, EvolvesOn
  <2>. QED
    BY <1>5, <2>2, <2>3, <2>6, <2>7
<1>10. CASE e # "ok"
  <2>1. PICK c : c = Agent!At(b, "Exited")
    OBVIOUS
  <2>2. PICK d : d = [b EXCEPT !.current = l]
    OBVIOUS
  <2>3. /\ Evolves(a, c) /\ IsAdapter(c)
        /\ Evolves(a, d) /\ IsAdapter(d)
    BY <1>8, <2>1, <2>2, AtKept, FieldKept, KeptOn DEF Evolves
  <2>4. /\ Evolves(a, Agent!ExpirePending(b))
        /\ Evolves(a, Agent!ExpirePending(c))
        /\ Evolves(a, Agent!ExpirePending(d))
    BY <1>8, <2>3, ExpireEvolves, EvolvesOn
  <2>5. r \in {b, Agent!ExpirePending(b), Agent!ExpirePending(c),
               Agent!ExpirePending(d)}
    BY <1>6, <1>10, <2>1, <2>2
  <2>6. Evolves(a, r)
    BY <1>8, <2>4, <2>5
  <2>. QED
    BY <1>4, <1>5, <1>10, <2>6
<1>. QED
  BY <1>9, <1>10

(* The deadlines of the adapter change nothing else.                       *)
LEMMA DeadlineEvolves ==
  ASSUME IsAdapter(adapter), Agent!GraceEnds \/ Agent!WriteInLate
  PROVE  Evolves(adapter, adapter')
<1>1. PICK q : q = Agent!Quiet(adapter)
  OBVIOUS
<1>2. Evolves(adapter, q) /\ IsAdapter(q)
  BY <1>1, QuietEvolves DEF Evolves
<1>3. CASE Agent!GraceEnds
  <2>1. PICK x : x = [q.consumed EXCEPT !.over = TRUE]
    OBVIOUS
  <2>2. PICK b : b = [q EXCEPT !.consumed = x]
    OBVIOUS
  <2>3. Evolves(adapter, b)
    BY <1>2, <2>2, FieldKept, KeptOn
  <2>4. adapter' = b
    BY <1>1, <1>3, <2>1, <2>2 DEF Agent!GraceEnds
  <2>. QED
    BY <2>3, <2>4
<1>4. CASE Agent!WriteInLate
  <2>1. PICK x : x = [q.writeIn EXCEPT !.late = TRUE]
    OBVIOUS
  <2>2. PICK b : b = [q EXCEPT !.writeIn = x]
    OBVIOUS
  <2>3. Evolves(adapter, b)
    BY <1>2, <2>2, FieldKept, KeptOn
  <2>4. adapter' = b
    BY <1>1, <1>4, <2>1, <2>2 DEF Agent!WriteInLate
  <2>. QED
    BY <2>3, <2>4
<1>. QED
  BY <1>3, <1>4

LEMMA FreshAdapter ==
  ASSUME NEW prompted
  PROVE  IsAdapter(Agent!NewAdapter(prompted))
<1>1. PICK e \in Seq(Told) : e = <<>>
  BY EmptySeq
<1>2. PICK a : a = Agent!NewAdapter(prompted)
  OBVIOUS
<1>3. /\ DOMAIN a = Fields /\ a.seq = 0 /\ a.out = e /\ a.buffer = e
      /\ a.pending = None
  BY <1>1, <1>2 DEF Agent!NewAdapter, Fields
<1>4. Below(e, 0)
  BY <1>1 DEF Below
<1>. QED
  BY <1>2, <1>3, <1>4 DEF IsAdapter

-----------------------------------------------------------------------------
(* The core inside the daemon.                                             *)

MessagesFrom(F) ==
  [type : {"event"}, kind : Kinds, seq : Nat, from : F]
    \cup [type : {"outcome"}, id : Nat, decision : Decisions,
          delivered : BOOLEAN]

LoopFrom(F) == [at : {"poll", "select"}, outgoing : Seq(MessagesFrom(F))]

Typed ==
  /\ LInv
  /\ IsAdapter(adapter)
  /\ \E F : loop \in LoopFrom(F) /\ upstream \in Seq(MessagesFrom(F))
  /\ \E S : answers \in Seq(S)

(* What a step does to resolutions: nothing, or one of them becomes x.     *)
SameResolved ==
  /\ Ids(queue') = Ids(queue)
  /\ \A y \in Ids(queue) : queue'[y].resolution = queue[y].resolution

Resolved(id, x) ==
  /\ Ids(queue') = Ids(queue)
  /\ \A y \in Ids(queue) :
       queue'[y].resolution = IF y = id THEN x ELSE queue[y].resolution

LEMMA SameDomain ==
  ASSUME NEW q, NEW r, NEW id, NEW x,
         Statuses(r) = [Statuses(q) EXCEPT ![id] = x]
  PROVE  Ids(r) = Ids(q)
<1>1. DOMAIN Statuses(q) = Ids(q) /\ DOMAIN Statuses(r) = Ids(r)
  BY DEF Statuses
<1>. QED
  BY <1>1

LEMMA SameStatusesPointwise ==
  ASSUME NEW q, NEW r, Statuses(r) = Statuses(q)
  PROVE  /\ Ids(r) = Ids(q)
         /\ \A y \in Ids(q) : r[y].resolution = q[y].resolution
<1>1. /\ DOMAIN Statuses(q) = Ids(q) /\ DOMAIN Statuses(r) = Ids(r)
      /\ \A y \in Ids(q) : Statuses(q)[y] = q[y].resolution
      /\ \A y \in Ids(r) : Statuses(r)[y] = r[y].resolution
  BY DEF Statuses
<1>. QED
  BY <1>1

LEMMA ResolvedHere ==
  ASSUME IInv, NEW id \in Ids(queue), NEW x,
         Statuses(queue') = [Statuses(queue) EXCEPT ![id] = x]
  PROVE  Resolved(id, x)
<1>1. queue \in Seq(QueueEntry)
  BY Store
<1>. PICK f \in [Ids(queue) -> Resolutions] :
       f = Statuses(queue) /\ \A y \in Ids(queue) : f[y] = queue[y].resolution
  BY <1>1, StatusesTyped
<1>. PICK g : g = Statuses(queue')
  OBVIOUS
<1>2. DOMAIN g = Ids(queue') /\ \A y \in Ids(queue') : g[y] = queue'[y].resolution
  BY DEF Statuses
<1>3. g = [f EXCEPT ![id] = x]
  OBVIOUS
<1>. QED
  BY <1>2, <1>3 DEF Resolved

LEMMA CoreRests ==
  ASSUME LInv, UNCHANGED core PROVE LInv' /\ SameResolved
BY DEF core, LInv, IInv, TypeOK, TrackerConsistent, WorkingShownWhileOpen,
       RequestsResolvable, EscalationCarried, CommandsTyped, NothingPending,
       TaskOf, IsRequest, Tracked, SameResolved, Ids

(* A decision is sent: the request was open, and is in delivery now.       *)
LEMMA SentEffect ==
  ASSUME LInv, NEW c, NEW id, NEW d \in Decisions, RespondSent(c, id, d)
  PROVE  /\ LInv' /\ id \in Ids(queue) /\ queue[id].resolution = "Unresolved"
         /\ Resolved(id, "PendingDelivery")
         /\ commands' = Append(commands, RespondCommand(id, d))
<1>. DEFINE asking == RespondRequest(queue, id)
<1>1. IInv /\ ClientRespond(c, id, d)
  BY DaemonAssumption DEF LInv, ClientRespond
<1>2. LInv'
  BY <1>1, RespondStep, RespondChanges, EffectInvariant
<1>3. queue \in Seq(QueueEntry) /\ \A y \in Ids(queue) : queue[y] \in QueueEntry
  BY <1>1, Store
<1>4. RespondVerdict(queue, id) = "ok"
  BY DEF RespondSent
<1>5. id \in Ids(queue) /\ queue[id].resolution = "Unresolved"
  BY <1>3, <1>4 DEF RespondVerdict, Known, QueueEntry, Resolutions
<1>6. /\ asking \in Seq(QueueEntry) /\ Len(asking) = Len(queue)
      /\ Statuses(asking) = [Statuses(queue) EXCEPT ![id] = "PendingDelivery"]
  BY <1>3, <1>5, RespondedStatuses
<1>. HIDE DEF asking
<1>7. Statuses(UpdateEntryScore(asking, events, id, now)) = Statuses(asking)
  BY <1>1, <1>6, ThenRescored
<1>8. /\ queue' = UpdateEntryScore(asking, events, id, now)
      /\ commands' = Append(commands, RespondCommand(id, d))
  BY DEF RespondSent, asking
<1>9. Statuses(queue') = [Statuses(queue) EXCEPT ![id] = "PendingDelivery"]
  BY <1>6, <1>7, <1>8
<1>10. Resolved(id, "PendingDelivery")
  BY <1>1, <1>5, <1>9, ResolvedHere
<1>. QED
  BY <1>2, <1>5, <1>8, <1>10

(* The channel to the adapter is full: the request is as it was.           *)
LEMMA OverflowEffect ==
  ASSUME LInv, NEW c, NEW id, NEW d \in Decisions, RespondOverflow(c, id, d)
  PROVE  LInv' /\ SameResolved /\ commands' = commands
<1>. DEFINE asking == RespondRequest(queue, id)
            sent   == UpdateEntryScore(asking, events, id, now)
            undone == MarkDeliveryFailed(sent, id)
<1>1. IInv /\ ClientRespond(c, id, d)
  BY DaemonAssumption DEF LInv, ClientRespond
<1>2. LInv'
  BY <1>1, RespondStep, RespondChanges, EffectInvariant
<1>3. /\ queue \in Seq(QueueEntry)
      /\ \A y \in Ids(queue) : queue[y] \in QueueEntry
      /\ Statuses(queue) \in [Ids(queue) -> Resolutions]
      /\ \A y \in Ids(queue) : Statuses(queue)[y] = queue[y].resolution
  BY <1>1, Store, StatusesTyped
<1>4. RespondVerdict(queue, id) = "ok"
  BY DEF RespondOverflow
<1>5. id \in Ids(queue) /\ queue[id].resolution = "Unresolved"
  BY <1>3, <1>4 DEF RespondVerdict, Known, QueueEntry, Resolutions
<1>6. /\ asking \in Seq(QueueEntry) /\ Len(asking) = Len(queue)
      /\ Statuses(asking) = [Statuses(queue) EXCEPT ![id] = "PendingDelivery"]
  BY <1>3, <1>5, RespondedStatuses
<1>. HIDE DEF asking
<1>7. /\ sent \in Seq(QueueEntry) /\ Len(sent) = Len(queue)
      /\ Statuses(sent) = [Statuses(queue) EXCEPT ![id] = "PendingDelivery"]
  BY <1>1, <1>6, ThenRescored
<1>. HIDE DEF sent
<1>8. id \in Ids(sent)
  BY <1>5, <1>7, SameDomain
<1>9. /\ undone \in Seq(QueueEntry) /\ Len(undone) = Len(queue)
      /\ Statuses(undone) = [Statuses(sent) EXCEPT ![id] = "Unresolved"]
  BY <1>7, <1>8, FailedStatuses
<1>. HIDE DEF undone
<1>10. Statuses(undone) = Statuses(queue)
  BY <1>3, <1>5, <1>7, <1>9, Overwritten
<1>11. Statuses(UpdateEntryScore(undone, events, id, now)) = Statuses(undone)
  BY <1>1, <1>9, ThenRescored
<1>12. /\ queue' = UpdateEntryScore(undone, events, id, now)
       /\ commands' = commands
  BY DEF RespondOverflow, undone, sent, asking
<1>13. SameResolved
  BY <1>10, <1>11, <1>12, SameStatusesPointwise DEF SameResolved
<1>. QED
  BY <1>2, <1>12, <1>13

(* An outcome settles or reopens a request that is in delivery.            *)
LEMMA OutcomeEffect ==
  ASSUME LInv, NEW id \in Ids(queue), NEW d \in Decisions,
         queue[id].resolution = "PendingDelivery"
  PROVE  /\ Delivered(id, d) =>
              LInv' /\ Resolved(id, d) /\ commands' = commands
         /\ DeliveryFailed(id) =>
              LInv' /\ Resolved(id, "Unresolved") /\ commands' = commands
<1>1. IInv /\ queue \in Seq(QueueEntry) /\ InDelivery(queue, id)
  BY Store DEF LInv, InDelivery, Known
<1>2. ASSUME Delivered(id, d) \/ DeliveryFailed(id) PROVE LInv'
  BY <1>1, <1>2, OutcomeStep, OutcomeChanges, EffectInvariant DEF AdapterOutcome
<1>3. ASSUME Delivered(id, d) PROVE Resolved(id, d) /\ commands' = commands
  <2>. DEFINE done == MarkDelivered(queue, id, d)
  <2>1. /\ done \in Seq(QueueEntry) /\ Len(done) = Len(queue)
        /\ Statuses(done) = [Statuses(queue) EXCEPT ![id] = d]
    BY <1>1, DeliveredStatuses
  <2>. HIDE DEF done
  <2>2. Statuses(UpdateEntryScore(done, events, id, now)) = Statuses(done)
    BY <1>1, <2>1, ThenRescored
  <2>3. /\ queue' = UpdateEntryScore(done, events, id, now)
        /\ commands' = commands
    BY <1>1, <1>3 DEF Delivered, done
  <2>. QED
    BY <1>1, <2>1, <2>2, <2>3, ResolvedHere
<1>4. ASSUME DeliveryFailed(id)
      PROVE  Resolved(id, "Unresolved") /\ commands' = commands
  <2>. DEFINE undone == MarkDeliveryFailed(queue, id)
  <2>1. /\ undone \in Seq(QueueEntry) /\ Len(undone) = Len(queue)
        /\ Statuses(undone) = [Statuses(queue) EXCEPT ![id] = "Unresolved"]
    BY <1>1, FailedStatuses
  <2>. HIDE DEF undone
  <2>2. Statuses(UpdateEntryScore(undone, events, id, now)) = Statuses(undone)
    BY <1>1, <2>1, ThenRescored
  <2>3. /\ queue' = UpdateEntryScore(undone, events, id, now)
        /\ commands' = commands
    BY <1>1, <1>4 DEF DeliveryFailed, undone
  <2>. QED
    BY <1>1, <2>1, <2>2, <2>3, ResolvedHere
<1>. QED
  BY <1>2, <1>3, <1>4

LEMMA ChannelEffect ==
  ASSUME LInv, NEW c, TakeCommand \/ ClientStartTask(c)
  PROVE  LInv' /\ SameResolved
<1>1. IInv /\ queue \in Seq(QueueEntry)
  BY Store DEF LInv
<1>2. /\ UNCHANGED <<events, open, queue, now>>
      /\ \/ commands' = commands \/ commands' = Append(commands, StartTask)
         \/ commands # <<>> /\ commands' = Tail(commands)
  BY DEF TakeCommand, ClientStartTask
<1>3. IInv'
  <2>1. now' \in Nat
    BY <1>1, <1>2, Store
  <2>. QED
    BY <1>1, <1>2, <2>1, StillStep, KeepsItself
<1>4. Effect
  BY <1>2 DEF Effect, Still
<1>5. LInv'
  BY <1>3, <1>4, EffectInvariant
<1>. QED
  BY <1>2, <1>5 DEF SameResolved

(* An event of the adapter is stored with the number the agent gave it.    *)
LEMMA EventEffect ==
  ASSUME Typed, CoreEvent
  PROVE  /\ LInv' /\ commands' = commands
         /\ Ids(queue') = Ids(queue) \cup {Len(queue) + 1}
         /\ \A y \in Ids(queue) : queue'[y].resolution = queue[y].resolution
         /\ queue'[Len(queue) + 1].resolution \in {"None", "Unresolved"}
         /\ Ids(queue) = 1..Len(queue) /\ Len(queue) = Len(events)
         /\ Len(queue) \in Nat /\ events \in Seq(Event)
         /\ \E event \in Event :
              events' = Append(events, event)
                /\ event.agentSeq = Head(upstream).seq
<1>. PICK F : upstream \in Seq(MessagesFrom(F))
  BY DEF Typed
<1>. PICK m \in MessagesFrom(F) : m = Head(upstream)
  BY HeadTailProperties DEF CoreEvent
<1>1. m.type = "event" /\ RawEvent(m.kind, Carries(m.kind), AgentTask, "Other", m.seq)
  BY DEF CoreEvent
<1>2. m.kind \in Kinds /\ m.seq \in Nat
  BY <1>1 DEF MessagesFrom
<1>3. Carries(m.kind) \in BOOLEAN /\ AgentTask \in Tasks /\ "Other" \in Operations
  BY DaemonAssumption DEF Carries, Operations
<1>4. Arrival
  BY <1>1, <1>2, <1>3 DEF Arrival
<1>5. LInv /\ IInv
  BY DEF Typed, LInv
<1>6. LInv'
  BY <1>4, <1>5, ArrivalStep, ArrivalChanges, EffectInvariant
<1>7. /\ Len(queue) = Len(events) /\ Len(queue) \in Nat /\ events \in Seq(Event)
      /\ Ids(queue) = 1..Len(queue)
  BY <1>5, Store
<1>. PICK n \in Nat : n = Len(queue)
  BY <1>7
<1>8. /\ queue' \in Seq(QueueEntry) /\ Len(queue') = n + 1
      /\ \A y \in Ids(queue) : queue'[y].resolution = queue[y].resolution
      /\ queue'[n + 1].resolution \in {"None", "Unresolved"}
  BY <1>4, <1>5, <1>7, ArrivalEffect
<1>9. Ids(queue') = 1..(n + 1)
  BY <1>8, LenProperties DEF Ids
<1>10. \E event \in Event : events' = Append(events, event) /\ event.agentSeq = m.seq
  <2>1. PICK e : e = Processed(m.kind, Carries(m.kind), AgentTask, "Other", m.seq)
    OBVIOUS
  <2>2. events' = Append(events, e)
    BY <1>1, <2>1 DEF RawEvent
  <2>3. e.agentSeq = m.seq
    BY <2>1 DEF Processed
  <2>4. PICK v \in Categories \X Severities : v = Verdict(m.kind, Carries(m.kind))
    BY <1>2, <1>3, VerdictTyped
  <2>5. now \in Nat
    BY <1>5, Store
  <2>6. e = [task |-> AgentTask, category |-> v[1], severity |-> v[2],
             operation |-> "Other", agentSeq |-> m.seq, ts |-> now]
    BY <2>1, <2>4 DEF Processed
  <2>7. e \in Event
    BY <1>2, <1>3, <2>4, <2>5, <2>6 DEF Event
  <2>. QED
    BY <2>2, <2>3, <2>7
<1>11. commands' = commands
  BY <1>1 DEF RawEvent
<1>. QED
  BY <1>6, <1>7, <1>8, <1>9, <1>10, <1>11

-----------------------------------------------------------------------------
(* Messages.                                                               *)

LEMMA AppendElements ==
  ASSUME NEW S, NEW s \in Seq(S), NEW e
  PROVE  /\ \A i \in DOMAIN Append(s, e) :
              Append(s, e)[i] = e \/ \E j \in DOMAIN s : Append(s, e)[i] = s[j]
         /\ \A j \in DOMAIN s : j \in DOMAIN Append(s, e) /\ Append(s, e)[j] = s[j]
         /\ Len(s) + 1 \in DOMAIN Append(s, e) /\ Append(s, e)[Len(s) + 1] = e
         /\ Append(s, e) \in Seq(S \cup {e}) /\ Len(Append(s, e)) = Len(s) + 1
         /\ Len(s) \in Nat /\ DOMAIN s = 1..Len(s)
         /\ DOMAIN Append(s, e) = 1..(Len(s) + 1)
<1>. DEFINE U == S \cup {e}
<1>1. s \in Seq(U) /\ e \in U
  OBVIOUS
<1>2. PICK n \in Nat : n = Len(s) /\ DOMAIN s = 1..n
  BY LenProperties
<1>3. PICK t \in Seq(U) : t = Append(s, e)
  BY <1>1, AppendProperties
<1>4. /\ DOMAIN t = 1..(n + 1) /\ t[n + 1] = e /\ Len(t) = n + 1
      /\ \A i \in 1..n : t[i] = s[i]
  <2>1. Len(t) = n + 1 /\ t[n + 1] = e /\ \A i \in 1..n : t[i] = s[i]
    BY <1>1, <1>2, <1>3, AppendProperties
  <2>. QED
    BY <2>1, LenProperties
<1>5. \A i \in 1..(n + 1) : i = n + 1 \/ i \in 1..n
  OBVIOUS
<1>. QED
  BY <1>2, <1>3, <1>4, <1>5

LEMMA TailElements ==
  ASSUME NEW S, NEW s \in Seq(S), s # <<>>
  PROVE  /\ \A i \in DOMAIN Tail(s) : \E j \in DOMAIN s : Tail(s)[i] = s[j]
         /\ 1 \in DOMAIN s /\ Head(s) = s[1] /\ Head(s) \in S
         /\ Tail(s) \in Seq(S)
<1>1. PICK m \in Nat : m = Len(s) /\ m > 0 /\ DOMAIN s = 1..m
  BY EmptySeq, LenProperties
<1>2. PICK t \in Seq(S) : t = Tail(s)
  BY HeadTailProperties
<1>3. Len(t) = m - 1 /\ \A i \in 1..Len(t) : t[i] = s[i + 1]
  BY <1>1, <1>2, HeadTailProperties
<1>4. \A i \in DOMAIN t : i + 1 \in DOMAIN s /\ t[i] = s[i + 1]
  BY <1>1, <1>3, LenProperties
<1>5. Head(s) = s[1] /\ Head(s) \in S
  BY HeadTailProperties
<1>. QED
  BY <1>1, <1>2, <1>4, <1>5

LEMMA AgentKindsKnown == AgentKinds \subseteq Kinds
<1>1. \A c \in Categories, s \in Severities : KindsOf(c, s) \subseteq Kinds
  BY DEF Kinds
<1>2. /\ KindsOf("Request", "Critical") \subseteq Kinds
      /\ KindsOf("Error", "Critical") \subseteq Kinds
      /\ KindsOf("Completed", "Important") \subseteq Kinds
      /\ KindsOf("Working", "Notable") \subseteq Kinds
      /\ KindsOf("Working", "Routine") \subseteq Kinds
  BY <1>1 DEF Categories, Severities
<1>3. /\ {"approval_required", "input_required"} \subseteq KindsOf("Request", "Critical")
      /\ {"command_failed", "adapter_error"} \subseteq KindsOf("Error", "Critical")
      /\ {"task_completed"} \subseteq KindsOf("Completed", "Important")
      /\ {"started"} \subseteq KindsOf("Working", "Notable")
      /\ {"progress"} \subseteq KindsOf("Working", "Routine")
  BY DEF KindsOf
<1>. QED
  BY <1>2, <1>3 DEF AgentKinds

LEMMA Widened ==
  ASSUME NEW F, NEW G, F \subseteq G
  PROVE  /\ MessagesFrom(F) \subseteq MessagesFrom(G)
         /\ Seq(MessagesFrom(F)) \subseteq Seq(MessagesFrom(G))
<1>1. MessagesFrom(F) \subseteq MessagesFrom(G)
  BY DEF MessagesFrom
<1>. HIDE DEF MessagesFrom
<1>. QED
  BY <1>1

LEMMA MessagesOf ==
  ASSUME NEW a, IsAdapter(a)
  PROVE  \E F :
           /\ EventMessages(a) \in Seq(MessagesFrom(F))
           /\ \A i \in DOMAIN EventMessages(a) :
                /\ i \in DOMAIN a.out
                /\ EventMessages(a)[i].type = "event"
                /\ EventMessages(a)[i].seq = a.out[i].seq
                /\ EventMessages(a)[i].from =
                     [session |-> session, screen |-> ScreenOf(a, a.out[i])]
<1>. DEFINE From(i) == [session |-> session, screen |-> ScreenOf(a, a.out[i])]
            F == {From(i) : i \in DOMAIN a.out}
            m == EventMessages(a)
<1>1. PICK n \in Nat : n = Len(a.out) /\ DOMAIN a.out = 1..n
  BY LenProperties DEF IsAdapter
<1>2. ASSUME NEW i \in 1..n
      PROVE  /\ m[i] \in MessagesFrom(F) /\ m[i].type = "event"
             /\ m[i].seq = a.out[i].seq /\ m[i].from = From(i)
  <2>1. PICK e \in Told : e = a.out[i]
    BY <1>1, ElementOfSeq DEF IsAdapter
  <2>2. e.kind \in Kinds /\ e.seq \in Nat
    BY AgentKindsKnown DEF Told
  <2>3. From(i) \in F
    BY <1>1
  <2>4. PICK f \in F : f = From(i)
    BY <2>3
  <2>5. PICK x : x = [type |-> "event", kind |-> e.kind, seq |-> e.seq, from |-> f]
    OBVIOUS
  <2>6. m[i] = x
    BY <1>1, <2>1, <2>4, <2>5 DEF EventMessages, EventMessage
  <2>. HIDE DEF F, From, m
  <2>7. x \in MessagesFrom(F) /\ x.type = "event" /\ x.seq = e.seq /\ x.from = f
    BY <2>2, <2>5 DEF MessagesFrom
  <2>. QED
    BY <2>1, <2>4, <2>6, <2>7
<1>3. m \in [1..n -> MessagesFrom(F)]
  <2>1. DOMAIN m = 1..n /\ m = [i \in 1..n |-> m[i]]
    BY <1>1 DEF EventMessages
  <2>. HIDE DEF m, F
  <2>. QED
    BY <1>2, <2>1
<1>. HIDE DEF F
<1>4. m \in Seq(MessagesFrom(F))
  <2>. HIDE DEF m
  <2>. QED
    BY <1>3, SeqOfFunction
<1>5. DOMAIN m = 1..n
  BY <1>3
<1>. QED
  BY <1>1, <1>2, <1>4, <1>5

-----------------------------------------------------------------------------
(* What was typed.                                                         *)

NotTyped(id) == \A i \in DOMAIN answers : answers[i].id # id

TypedAs(id, d) ==
  \E i \in DOMAIN answers :
    /\ answers[i].id = id /\ answers[i].decision = d
    /\ \A j \in DOMAIN answers : answers[j].id = id => j = i

LEMMA AnswerAdded ==
  ASSUME NEW S, answers \in Seq(S), NEW e, answers' = Append(answers, e)
  PROVE  /\ \A y : y # e.id /\ NotTyped(y) => NotTyped(y)'
         /\ \A y, d : y # e.id /\ TypedAs(y, d) => TypedAs(y, d)'
         /\ NotTyped(e.id) => TypedAs(e.id, e.decision)'
<1>1. PICK n \in Nat : n = Len(answers) /\ DOMAIN answers = 1..n
  BY LenProperties
<1>2. /\ DOMAIN answers' = 1..(n + 1) /\ answers'[n + 1] = e
      /\ \A i \in 1..n : answers'[i] = answers[i]
      /\ \A i \in 1..(n + 1) : i \in 1..n \/ i = n + 1
  BY <1>1, AppendElements
<1>3. ASSUME NEW y, y # e.id, NotTyped(y) PROVE NotTyped(y)'
  BY <1>1, <1>2, <1>3 DEF NotTyped
<1>4. ASSUME NEW y, NEW d, y # e.id, TypedAs(y, d) PROVE TypedAs(y, d)'
  <2>1. PICK i \in 1..n :
          /\ answers[i].id = y /\ answers[i].decision = d
          /\ \A j \in 1..n : answers[j].id = y => j = i
    BY <1>1, <1>4 DEF TypedAs
  <2>2. i \in DOMAIN answers' /\ answers'[i].id = y /\ answers'[i].decision = d
    BY <1>2, <2>1
  <2>3. \A j \in DOMAIN answers' : answers'[j].id = y => j = i
    BY <1>2, <1>4, <2>1
  <2>. QED
    BY <2>2, <2>3 DEF TypedAs
<1>5. ASSUME NotTyped(e.id) PROVE TypedAs(e.id, e.decision)'
  <2>1. n + 1 \in DOMAIN answers' /\ answers'[n + 1] = e
    BY <1>2
  <2>2. \A j \in DOMAIN answers' : answers'[j].id = e.id => j = n + 1
    BY <1>1, <1>2, <1>5 DEF NotTyped
  <2>. QED
    BY <2>1, <2>2 DEF TypedAs
<1>. QED
  BY <1>3, <1>4, <1>5

(* An answer on its way was not typed yet; the word of a delivery says     *)
(* whether it was; and so does the queue, unless it waits for that word.   *)
AskTold(c) ==
  c.type = "respond" =>
    /\ c.id \in Ids(queue) /\ c.decision \in Decisions /\ NotTyped(c.id)

WordTold(m) ==
  m.type = "outcome" =>
    /\ m.id \in Ids(queue)
    /\ m.delivered => TypedAs(m.id, m.decision)
    /\ ~m.delivered => NotTyped(m.id)

QueueTold ==
  \A id \in Ids(queue) :
    /\ queue[id].resolution \in {"None", "Unresolved"} => NotTyped(id)
    /\ queue[id].resolution \in Decisions => TypedAs(id, queue[id].resolution)

AllTold ==
  /\ \A i \in DOMAIN commands : AskTold(commands[i])
  /\ \A i \in DOMAIN loop.outgoing : WordTold(loop.outgoing[i])
  /\ \A i \in DOMAIN upstream : WordTold(upstream[i])
  /\ \A i \in DOMAIN answers : answers[i].id \in Ids(queue)
  /\ QueueTold

Good == Typed /\ AllTold /\ PendingHasOneCarrier

(* Nothing new is said: what is on its way was on its way before.          *)
NoneAsked ==
  \A i \in DOMAIN commands' :
    \/ commands'[i].type # "respond"
    \/ \E j \in DOMAIN commands : commands'[i] = commands[j]

NoneReported ==
  \A i \in DOMAIN loop'.outgoing :
    \/ loop'.outgoing[i].type # "outcome"
    \/ \E j \in DOMAIN loop.outgoing : loop'.outgoing[i] = loop.outgoing[j]

NonePassedOn ==
  \A i \in DOMAIN upstream' :
    \/ upstream'[i].type # "outcome"
    \/ \E j \in DOMAIN upstream : upstream'[i] = upstream[j]
    \/ \E j \in DOMAIN loop.outgoing : upstream'[i] = loop.outgoing[j]

LEMMA NothingNewSaid ==
  ASSUME AllTold, answers' = answers,
         Ids(queue) \subseteq Ids(queue'),
         \A y \in Ids(queue) : queue'[y].resolution = queue[y].resolution,
         \A y \in Ids(queue') :
           y \in Ids(queue) \/ queue'[y].resolution \in {"None", "Unresolved"},
         NoneAsked, NoneReported, NonePassedOn
  PROVE  AllTold'
<1>1. /\ \A y : NotTyped(y)' <=> NotTyped(y)
      /\ \A y, d : TypedAs(y, d)' <=> TypedAs(y, d)
  BY DEF NotTyped, TypedAs
<1>2. ASSUME NEW x, AskTold(x) PROVE AskTold(x)'
  BY <1>1, <1>2 DEF AskTold
<1>3. ASSUME NEW x, WordTold(x) PROVE WordTold(x)'
  BY <1>1, <1>3 DEF WordTold
<1>4. ASSUME NEW i \in DOMAIN commands' PROVE AskTold(commands[i])'
  <2>1. PICK x : x = commands'[i]
    OBVIOUS
  <2>2. AskTold(x)'
    <3>1. CASE x.type # "respond"
      BY <3>1 DEF AskTold
    <3>2. CASE x.type = "respond"
      BY <1>2, <2>1, <3>2 DEF AllTold, NoneAsked
    <3>. QED
      BY <3>1, <3>2
  <2>. QED
    BY <2>1, <2>2 DEF AskTold
<1>5. ASSUME NEW i \in DOMAIN loop'.outgoing PROVE WordTold(loop.outgoing[i])'
  <2>1. PICK x : x = loop'.outgoing[i]
    OBVIOUS
  <2>2. WordTold(x)'
    <3>1. CASE x.type # "outcome"
      BY <3>1 DEF WordTold
    <3>2. CASE x.type = "outcome"
      BY <1>3, <2>1, <3>2 DEF AllTold, NoneReported
    <3>. QED
      BY <3>1, <3>2
  <2>. QED
    BY <2>1, <2>2 DEF WordTold
<1>6. ASSUME NEW i \in DOMAIN upstream' PROVE WordTold(upstream[i])'
  <2>1. PICK x : x = upstream'[i]
    OBVIOUS
  <2>2. WordTold(x)'
    <3>1. CASE x.type # "outcome"
      BY <3>1 DEF WordTold
    <3>2. CASE x.type = "outcome"
      BY <1>3, <2>1, <3>2 DEF AllTold, NonePassedOn
    <3>. QED
      BY <3>1, <3>2
  <2>. QED
    BY <2>1, <2>2 DEF WordTold
<1>7. QueueTold'
  <2>. SUFFICES ASSUME NEW id \in Ids(queue')
                PROVE  /\ queue'[id].resolution \in {"None", "Unresolved"}
                            => NotTyped(id)
                       /\ queue'[id].resolution \in Decisions
                            => TypedAs(id, queue'[id].resolution)
    BY <1>1 DEF QueueTold
  <2>1. CASE id \in Ids(queue)
    BY <1>1, <2>1 DEF AllTold, QueueTold
  <2>2. CASE id \notin Ids(queue)
    <3>1. NotTyped(id) /\ queue'[id].resolution \notin Decisions
      BY <2>2 DEF AllTold, NotTyped, Decisions
    <3>. QED
      BY <1>1, <3>1
  <2>. QED
    BY <2>1, <2>2
<1>8. \A i \in DOMAIN answers' : answers'[i].id \in Ids(queue')
  BY DEF AllTold
<1>. QED
  BY <1>4, <1>5, <1>6, <1>7, <1>8 DEF AllTold

(* A decision is asked for: nothing was typed for it.                      *)
LEMMA AskedTold ==
  ASSUME AllTold, answers' = answers, loop' = loop, upstream' = upstream,
         NEW id \in Ids(queue), queue[id].resolution = "Unresolved",
         Resolved(id, "PendingDelivery"),
         NEW d \in Decisions,
         \A i \in DOMAIN commands' :
           \/ commands'[i] = RespondCommand(id, d)
           \/ \E j \in DOMAIN commands : commands'[i] = commands[j]
  PROVE  AllTold'
<1>1. /\ \A y : NotTyped(y)' <=> NotTyped(y)
      /\ \A y, x : TypedAs(y, x)' <=> TypedAs(y, x)
  BY DEF NotTyped, TypedAs
<1>2. Ids(queue') = Ids(queue) /\ NotTyped(id)
  BY DEF Resolved, AllTold, QueueTold
<1>3. ASSUME NEW x, AskTold(x) PROVE AskTold(x)'
  BY <1>1, <1>2, <1>3 DEF AskTold
<1>4. ASSUME NEW x, WordTold(x) PROVE WordTold(x)'
  BY <1>1, <1>2, <1>4 DEF WordTold
<1>5. ASSUME NEW i \in DOMAIN commands' PROVE AskTold(commands[i])'
  <2>1. PICK x : x = commands'[i]
    OBVIOUS
  <2>2. AskTold(x)'
    <3>1. CASE x = RespondCommand(id, d)
      BY <1>1, <1>2, <3>1 DEF AskTold, RespondCommand
    <3>2. CASE x # RespondCommand(id, d)
      BY <1>3, <2>1, <3>2 DEF AllTold
    <3>. QED
      BY <3>1, <3>2
  <2>. QED
    BY <2>1, <2>2 DEF AskTold
<1>6. /\ \A i \in DOMAIN loop'.outgoing : WordTold(loop.outgoing[i])'
      /\ \A i \in DOMAIN upstream' : WordTold(upstream[i])'
  BY <1>4 DEF AllTold, WordTold
<1>7. QueueTold'
  <2>1. "PendingDelivery" \notin Decisions \cup {"None", "Unresolved"}
    BY DEF Decisions
  <2>. QED
    BY <1>1, <1>2, <2>1 DEF AllTold, QueueTold, Resolved
<1>8. \A i \in DOMAIN answers' : answers'[i].id \in Ids(queue')
  BY <1>2 DEF AllTold
<1>. QED
  BY <1>5, <1>6, <1>7, <1>8 DEF AllTold

(* A decision is typed, and the word of it is the only thing on its way.   *)
OthersAsked(id) ==
  \A i \in DOMAIN commands' :
    \/ commands'[i].type # "respond"
    \/ commands'[i].id # id /\ \E j \in DOMAIN commands : commands'[i] = commands[j]

OnlyDelivered(id, decision) ==
  \A i \in DOMAIN loop'.outgoing :
    \/ loop'.outgoing[i].type # "outcome"
    \/ /\ loop'.outgoing[i].id = id /\ loop'.outgoing[i].delivered
       /\ loop'.outgoing[i].decision = decision

NoWordOf(id) ==
  \A i \in DOMAIN upstream : upstream[i].type # "outcome" \/ upstream[i].id # id

LEMMA TypedTold ==
  ASSUME AllTold, NEW S, answers \in Seq(S), NEW e,
         answers' = Append(answers, e), queue' = queue, upstream' = upstream,
         e.id \in Ids(queue), queue[e.id].resolution = "PendingDelivery",
         NotTyped(e.id), OthersAsked(e.id), OnlyDelivered(e.id, e.decision),
         NoWordOf(e.id)
  PROVE  AllTold'
<1>1. /\ \A y : y # e.id /\ NotTyped(y) => NotTyped(y)'
      /\ \A y, d : y # e.id /\ TypedAs(y, d) => TypedAs(y, d)'
      /\ TypedAs(e.id, e.decision)'
  BY AnswerAdded
<1>2. ASSUME NEW i \in DOMAIN commands' PROVE AskTold(commands[i])'
  <2>1. PICK x : x = commands'[i]
    OBVIOUS
  <2>2. AskTold(x)'
    <3>1. CASE x.type # "respond"
      BY <3>1 DEF AskTold
    <3>2. CASE x.type = "respond"
      <4>1. x.id # e.id /\ AskTold(x)
        BY <2>1, <3>2 DEF AllTold, OthersAsked
      <4>. QED
        BY <1>1, <4>1 DEF AskTold
    <3>. QED
      BY <3>1, <3>2
  <2>. QED
    BY <2>1, <2>2 DEF AskTold
<1>3. ASSUME NEW i \in DOMAIN loop'.outgoing PROVE WordTold(loop.outgoing[i])'
  BY <1>1 DEF WordTold, OnlyDelivered
<1>4. ASSUME NEW i \in DOMAIN upstream' PROVE WordTold(upstream[i])'
  <2>1. PICK x : x = upstream[i]
    OBVIOUS
  <2>2. WordTold(x) /\ (x.type # "outcome" \/ x.id # e.id)
    BY <2>1 DEF AllTold, NoWordOf
  <2>3. WordTold(x)'
    BY <1>1, <2>2 DEF WordTold
  <2>. QED
    BY <2>1, <2>3 DEF WordTold
<1>5. QueueTold'
  <2>1. "PendingDelivery" \notin Decisions \cup {"None", "Unresolved"}
    BY DEF Decisions
  <2>. QED
    BY <1>1, <2>1 DEF AllTold, QueueTold
<1>6. \A i \in DOMAIN answers' : answers'[i].id \in Ids(queue')
  <2>1. \A i \in DOMAIN answers' :
          answers'[i] = e \/ \E j \in DOMAIN answers : answers'[i] = answers[j]
    BY AppendElements
  <2>. QED
    BY <2>1 DEF AllTold
<1>. QED
  BY <1>2, <1>3, <1>4, <1>5, <1>6 DEF AllTold

(* The decision could not be typed: the word is that it was not.           *)
LEMMA UntypedTold ==
  ASSUME AllTold, answers' = answers, queue' = queue, upstream' = upstream,
         NEW id \in Ids(queue), NotTyped(id),
         \A i \in DOMAIN commands' :
           \E j \in DOMAIN commands : commands'[i] = commands[j],
         \A i \in DOMAIN loop'.outgoing :
           loop'.outgoing[i].id = id /\ ~loop'.outgoing[i].delivered
  PROVE  AllTold'
<1>1. /\ \A y : NotTyped(y)' <=> NotTyped(y)
      /\ \A y, x : TypedAs(y, x)' <=> TypedAs(y, x)
  BY DEF NotTyped, TypedAs
<1>2. ASSUME NEW x, AskTold(x) PROVE AskTold(x)'
  BY <1>1, <1>2 DEF AskTold
<1>3. ASSUME NEW x, WordTold(x) PROVE WordTold(x)'
  BY <1>1, <1>3 DEF WordTold
<1>4. ASSUME NEW i \in DOMAIN commands' PROVE AskTold(commands[i])'
  <2>1. PICK j \in DOMAIN commands : commands'[i] = commands[j]
    OBVIOUS
  <2>2. AskTold(commands[j])
    BY DEF AllTold
  <2>. QED
    BY <1>1, <2>1, <2>2 DEF AskTold
<1>5. \A i \in DOMAIN loop'.outgoing : WordTold(loop.outgoing[i])'
  BY <1>1 DEF WordTold
<1>6. \A i \in DOMAIN upstream' : WordTold(upstream[i])'
  BY <1>3 DEF AllTold, WordTold
<1>7. QueueTold'
  BY <1>1 DEF AllTold, QueueTold
<1>. QED
  BY <1>4, <1>5, <1>6, <1>7 DEF AllTold

(* The core hears the word of a delivery.                                  *)
LEMMA HeardTold ==
  ASSUME AllTold, answers' = answers, loop' = loop, commands' = commands,
         NEW w, WordTold(w), w.type = "outcome",
         NEW x, Resolved(w.id, x),
         \/ w.delivered /\ x = w.decision /\ x \in Decisions
         \/ ~w.delivered /\ x = "Unresolved",
         \A i \in DOMAIN upstream' : \E j \in DOMAIN upstream : upstream'[i] = upstream[j]
  PROVE  AllTold'
<1>1. /\ \A y : NotTyped(y)' <=> NotTyped(y)
      /\ \A y, d : TypedAs(y, d)' <=> TypedAs(y, d)
  BY DEF NotTyped, TypedAs
<1>2. Ids(queue') = Ids(queue)
  BY DEF Resolved
<1>3. \A i \in DOMAIN commands' : AskTold(commands[i])'
  BY <1>1, <1>2 DEF AllTold, AskTold
<1>4. \A i \in DOMAIN loop'.outgoing : WordTold(loop.outgoing[i])'
  BY <1>1, <1>2 DEF AllTold, WordTold
<1>5. ASSUME NEW i \in DOMAIN upstream' PROVE WordTold(upstream[i])'
  <2>1. PICK j \in DOMAIN upstream : upstream'[i] = upstream[j]
    OBVIOUS
  <2>2. WordTold(upstream[j])
    BY DEF AllTold
  <2>. QED
    BY <1>1, <1>2, <2>1, <2>2 DEF WordTold
<1>6. QueueTold'
  <2>. SUFFICES ASSUME NEW id \in Ids(queue)
                PROVE  /\ queue'[id].resolution \in {"None", "Unresolved"}
                            => NotTyped(id)
                       /\ queue'[id].resolution \in Decisions
                            => TypedAs(id, queue'[id].resolution)
    BY <1>1, <1>2 DEF QueueTold
  <2>1. CASE id = w.id
    <3>1. queue'[id].resolution = x
      BY <2>1 DEF Resolved
    <3>2. x = "Unresolved" => x \notin Decisions
      BY DEF Decisions
    <3>3. x \in Decisions => x \notin {"None", "Unresolved"}
      BY DEF Decisions
    <3>. QED
      BY <2>1, <3>1, <3>2, <3>3 DEF WordTold
  <2>2. CASE id # w.id
    BY <2>2 DEF Resolved, AllTold, QueueTold
  <2>. QED
    BY <2>1, <2>2
<1>7. \A i \in DOMAIN answers' : answers'[i].id \in Ids(queue')
  BY <1>2 DEF AllTold
<1>. QED
  BY <1>3, <1>4, <1>5, <1>6, <1>7 DEF AllTold

-----------------------------------------------------------------------------
(* Carriers: commands and words on their way, counted.                     *)

Asking(id) == Cardinality(Places(commands, "respond", id))
Sending(id) == Cardinality(Places(loop.outgoing, "outcome", id))
Hearing(id) == Cardinality(Places(upstream, "outcome", id))

LEMMA Counts ==
  ASSUME Typed, NEW id
  PROVE  /\ Asking(id) \in Nat /\ Sending(id) \in Nat /\ Hearing(id) \in Nat
         /\ InFlight(id) = Asking(id) + Sending(id) + Hearing(id)
         /\ Asking(id) = 0 <=>
              \A i \in DOMAIN commands :
                ~(commands[i].type = "respond" /\ commands[i].id = id)
         /\ Sending(id) = 0 <=>
              \A i \in DOMAIN loop.outgoing :
                ~(loop.outgoing[i].type = "outcome" /\ loop.outgoing[i].id = id)
         /\ Hearing(id) = 0 <=>
              \A i \in DOMAIN upstream :
                ~(upstream[i].type = "outcome" /\ upstream[i].id = id)
<1>. PICK S : commands \in Seq(S)
  BY DEF Typed, LInv, CommandsTyped
<1>. PICK F : loop \in LoopFrom(F) /\ upstream \in Seq(MessagesFrom(F))
  BY DEF Typed
<1>1. loop.outgoing \in Seq(MessagesFrom(F))
  BY DEF LoopFrom
<1>. QED
  BY <1>1, PlacesFinite DEF Asking, Sending, Hearing, InFlight

(* A request with something on its way is in delivery, and it is all there *)
(* is on its way for it.                                                   *)
LEMMA OnlyCarrier ==
  ASSUME Good, NEW id \in Ids(queue),
         Asking(id) + Sending(id) + Hearing(id) # 0
  PROVE  /\ queue[id].resolution = "PendingDelivery"
         /\ Asking(id) + Sending(id) + Hearing(id) = 1
BY Counts DEF Good, PendingHasOneCarrier

(* An id nobody knows is not on its way either.                            *)
LEMMA UnknownUncarried ==
  ASSUME Good, NEW id, id \notin Ids(queue)
  PROVE  Asking(id) = 0 /\ Sending(id) = 0 /\ Hearing(id) = 0
<1>1. Asking(id) = 0
  BY Counts DEF Good, AllTold, AskTold
<1>2. Sending(id) = 0
  BY Counts DEF Good, AllTold, WordTold
<1>3. Hearing(id) = 0
  BY Counts DEF Good, AllTold, WordTold
<1>. QED
  BY <1>1, <1>2, <1>3

(* The counts after a step decide.                                         *)
LEMMA CarriersBalance ==
  ASSUME Good, Typed', SameResolved,
         \A id : Asking(id)' + Sending(id)' + Hearing(id)'
                   = Asking(id) + Sending(id) + Hearing(id)
  PROVE  PendingHasOneCarrier'
<1>1. \A id : InFlight(id) = Asking(id) + Sending(id) + Hearing(id)
  BY Counts DEF Good
<1>2. \A id : InFlight(id)' = Asking(id)' + Sending(id)' + Hearing(id)'
  BY DEF InFlight, Asking, Sending, Hearing
<1>3. \A id : InFlight(id)' = InFlight(id)
  BY <1>1, <1>2
<1>. QED
  BY <1>3 DEF Good, PendingHasOneCarrier, SameResolved

LEMMA SameCommands ==
  ASSUME commands' = commands PROVE \A id : Asking(id)' = Asking(id)
BY DEF Asking

LEMMA SameLoop ==
  ASSUME loop'.outgoing = loop.outgoing
  PROVE  \A id : Sending(id)' = Sending(id)
BY DEF Sending

LEMMA SameUpstream ==
  ASSUME upstream' = upstream PROVE \A id : Hearing(id)' = Hearing(id)
BY DEF Hearing

LEMMA CommandTaken ==
  ASSUME Typed, commands # <<>>, commands' = Tail(commands)
  PROVE  \A id : Asking(id) = Asking(id)' +
           IF Head(commands).type = "respond" /\ Head(commands).id = id
           THEN 1 ELSE 0
<1>. PICK S : commands \in Seq(S)
  BY DEF Typed, LInv, CommandsTyped
<1>. QED
  BY PlacesTail DEF Asking

LEMMA CommandAdded ==
  ASSUME Typed, NEW c, commands' = Append(commands, c)
  PROVE  \A id : Asking(id)' = Asking(id) +
           IF c.type = "respond" /\ c.id = id THEN 1 ELSE 0
<1>. PICK S : commands \in Seq(S)
  BY DEF Typed, LInv, CommandsTyped
<1>. QED
  BY PlacesAppend DEF Asking

LEMMA MessageHeard ==
  ASSUME Typed, upstream # <<>>, upstream' = Tail(upstream)
  PROVE  \A id : Hearing(id) = Hearing(id)' +
           IF Head(upstream).type = "outcome" /\ Head(upstream).id = id
           THEN 1 ELSE 0
<1>. PICK F : upstream \in Seq(MessagesFrom(F))
  BY DEF Typed
<1>. QED
  BY PlacesTail DEF Hearing

LEMMA MessageSent ==
  ASSUME Typed, loop.outgoing # <<>>,
         upstream' = Append(upstream, Head(loop.outgoing)),
         loop'.outgoing = Tail(loop.outgoing)
  PROVE  \A id : Sending(id)' + Hearing(id)' = Sending(id) + Hearing(id)
<1>. PICK F : loop \in LoopFrom(F) /\ upstream \in Seq(MessagesFrom(F))
  BY DEF Typed
<1>1. loop.outgoing \in Seq(MessagesFrom(F))
  BY DEF LoopFrom
<1>. TAKE id
<1>. PICK x \in {0, 1} :
       x = IF Head(loop.outgoing).type = "outcome" /\ Head(loop.outgoing).id = id
           THEN 1 ELSE 0
  OBVIOUS
<1>2. Sending(id) = Sending(id)' + x
  BY <1>1, PlacesTail DEF Sending
<1>3. Hearing(id)' = Hearing(id) + x
  BY PlacesAppend DEF Hearing
<1>4. Sending(id)' \in Nat
  <2>1. Tail(loop.outgoing) \in Seq(MessagesFrom(F))
    BY <1>1, HeadTailProperties
  <2>. QED
    BY <2>1, PlacesFinite DEF Sending
<1>5. Hearing(id) \in Nat
  BY Counts
<1>. QED
  BY <1>2, <1>3, <1>4, <1>5

(* What the loop has to send begins with nothing in it.                    *)
LEMMA LoopReports ==
  ASSUME Typed, loop.outgoing = <<>>, NEW m, loop'.outgoing = <<m>>
  PROVE  \A id : /\ Sending(id) = 0
                 /\ Sending(id)' = IF m.type = "outcome" /\ m.id = id
                                   THEN 1 ELSE 0
<1>1. <<>> \in Seq({m}) /\ <<m>> = Append(<<>>, m)
  BY EmptySeq
<1>2. \A id : Cardinality(Places(<<>>, "outcome", id)) = 0
  <2>. TAKE id
  <2>1. \A i \in DOMAIN <<>> : FALSE
    OBVIOUS
  <2>. QED
    BY <1>1, <2>1, PlacesFinite
<1>3. \A id : Cardinality(Places(<<m>>, "outcome", id))
                = Cardinality(Places(<<>>, "outcome", id))
                    + IF m.type = "outcome" /\ m.id = id THEN 1 ELSE 0
  <2>. TAKE id
  <2>1. PICK s \in Seq({m}) : s = <<>>
    BY <1>1
  <2>2. Cardinality(Places(Append(s, m), "outcome", id))
          = Cardinality(Places(s, "outcome", id))
              + IF m.type = "outcome" /\ m.id = id THEN 1 ELSE 0
    BY PlacesAppend
  <2>3. Append(s, m) = <<m>>
    BY <1>1, <2>1
  <2>. QED
    BY <2>1, <2>2, <2>3
<1>. QED
  BY <1>2, <1>3 DEF Sending

LEMMA LoopAnnounces ==
  ASSUME Typed, Typed', loop.outgoing = <<>>,
         \A i \in DOMAIN loop'.outgoing : loop'.outgoing[i].type # "outcome"
  PROVE  \A id : Sending(id) = 0 /\ Sending(id)' = 0
<1>. PICK F : loop' \in LoopFrom(F)
  BY DEF Typed
<1>1. loop'.outgoing \in Seq(MessagesFrom(F))
  BY DEF LoopFrom
<1>2. \A id : Sending(id)' = 0
  BY <1>1, PlacesFinite DEF Sending
<1>3. \A id : Sending(id) = 0
  <2>1. \A i \in DOMAIN loop.outgoing : FALSE
    OBVIOUS
  <2>. QED
    BY <2>1, Counts
<1>. QED
  BY <1>2, <1>3

-----------------------------------------------------------------------------
(* The steps of the daemon.                                                *)

(* Everything but the adapter and what the loop has to send rests.         *)
LEMMA PollEffect ==
  ASSUME IsAdapter(adapter), PollAdapter
  PROVE  \E polled :
           /\ Evolves(adapter, polled) /\ Evolves(polled, adapter')
           /\ loop' = [at |-> "select", outgoing |-> EventMessages(polled)]
<1>. PICK evidence \in BOOLEAN, sent \in BOOLEAN :
       \E best   \in Agent!PollOutcomes(adapter, evidence, TRUE),
          polled \in Agent!PollOutcomes(adapter, evidence, sent) :
         LET ready == held /\ Agent!AcceptsChatInput(polled.screen) IN
         /\ Agent!Writes(IF ready THEN Agent!PromptStarted(best).typed
                         ELSE best.typed, sent)
         /\ adapter' = IF ready /\ sent THEN Agent!PromptStarted(polled)
                       ELSE polled
         /\ held' = (held /\ ~ready)
         /\ loop' = [at |-> "select", outgoing |-> EventMessages(polled)]
  BY DEF PollAdapter
<1>. PICK polled \in Agent!PollOutcomes(adapter, evidence, sent) :
       /\ adapter' = Agent!PromptStarted(polled) \/ adapter' = polled
       /\ loop' = [at |-> "select", outgoing |-> EventMessages(polled)]
  OBVIOUS
<1>1. Evolves(adapter, polled) /\ IsAdapter(polled)
  BY PollEvolves DEF Evolves
<1>2. Kept(polled, polled)
  BY DEF Kept
<1>3. Evolves(polled, polled) /\ Evolves(polled, Agent!PromptStarted(polled))
  BY <1>1, <1>2, KeptEvolves, PromptEvolves
<1>. QED
  BY <1>1, <1>3

LEMMA TypedStep ==
  ASSUME Typed, LInv', IsAdapter(adapter)', answers' = answers,
         \E F : loop' \in LoopFrom(F), \E F : upstream' \in Seq(MessagesFrom(F))
  PROVE  Typed'
<1>. PICK F : loop' \in LoopFrom(F)
  OBVIOUS
<1>. PICK G : upstream' \in Seq(MessagesFrom(G))
  OBVIOUS
<1>. PICK H : H = F \cup G
  OBVIOUS
<1>1. loop' \in LoopFrom(H) /\ upstream' \in Seq(MessagesFrom(H))
  BY Widened DEF LoopFrom
<1>. QED
  BY <1>1 DEF Typed

LEMMA LoopEffect ==
  ASSUME Typed
  PROVE  /\ \E F : upstream \in Seq(MessagesFrom(F))
         /\ \E F : loop \in LoopFrom(F)
         /\ \E F : loop.outgoing \in Seq(MessagesFrom(F))
         /\ IsAdapter(adapter) /\ LInv
BY DEF Typed, LoopFrom

LEMMA PollStep == ASSUME Good, PollAdapter PROVE Good'
<1>1. /\ UNCHANGED core /\ upstream' = upstream /\ answers' = answers
      /\ loop.outgoing = <<>>
  BY DEF PollAdapter, Waiting, history
<1>2. PICK polled :
           /\ Evolves(adapter, polled) /\ Evolves(polled, adapter')
           /\ loop' = [at |-> "select", outgoing |-> EventMessages(polled)]
  BY PollEffect, LoopEffect DEF Good
<1>3. LInv' /\ SameResolved
  BY <1>1, CoreRests DEF Good, Typed
<1>4. PICK F :
        /\ EventMessages(polled) \in Seq(MessagesFrom(F))
        /\ \A i \in DOMAIN EventMessages(polled) :
             EventMessages(polled)[i].type = "event"
  BY <1>2, MessagesOf DEF Evolves
<1>5. /\ loop' \in LoopFrom(F)
      /\ \A i \in DOMAIN loop'.outgoing : loop'.outgoing[i].type = "event"
  BY <1>2, <1>4 DEF LoopFrom
<1>6. IsAdapter(adapter)'
  BY <1>2 DEF Evolves, IsAdapter, RequestTyped, Below
<1>7. Typed'
  BY <1>1, <1>3, <1>5, <1>6, TypedStep, LoopEffect DEF Good
<1>8. AllTold'
  <2>1. commands' = commands
    BY <1>1 DEF core
  <2>. QED
    BY <1>1, <1>3, <1>5, <2>1, NothingNewSaid
     DEF Good, SameResolved, NoneAsked, NoneReported, NonePassedOn
<1>9. PendingHasOneCarrier'
  <2>1. \A id : Sending(id) = 0 /\ Sending(id)' = 0
    BY <1>1, <1>5, <1>7, LoopAnnounces DEF Good
  <2>2. \A id : Asking(id)' = Asking(id) /\ Hearing(id)' = Hearing(id)
    BY <1>1, SameCommands, SameUpstream DEF core
  <2>. QED
    BY <1>3, <1>7, <2>1, <2>2, CarriersBalance
<1>. QED
  BY <1>7, <1>8, <1>9 DEF Good

(* What is passed on is one less to send and one more to hear.             *)
LEMMA PassedOn ==
  ASSUME NEW id, Asking(id) \in Nat, Sending(id) \in Nat, Hearing(id) \in Nat,
         Sending(id)' \in Nat, Hearing(id)' \in Nat, Asking(id)' = Asking(id),
         Sending(id)' + Hearing(id)' = Sending(id) + Hearing(id)
  PROVE  Asking(id)' + Sending(id)' + Hearing(id)'
           = Asking(id) + Sending(id) + Hearing(id)
OBVIOUS

LEMMA SendStep == ASSUME Good, SendToCore PROVE Good'
<1>1. /\ UNCHANGED core /\ adapter' = adapter /\ answers' = answers
      /\ loop.outgoing # <<>>
      /\ upstream' = Append(upstream, Head(loop.outgoing))
      /\ loop' = [loop EXCEPT !.outgoing = Tail(loop.outgoing)]
  BY DEF SendToCore, history, agentSide
<1>. PICK F : loop \in LoopFrom(F) /\ upstream \in Seq(MessagesFrom(F))
  BY DEF Good, Typed
<1>. PICK o \in Seq(MessagesFrom(F)) : o = loop.outgoing /\ o # <<>>
  BY <1>1 DEF LoopFrom
<1>2. /\ Tail(o) \in Seq(MessagesFrom(F)) /\ Head(o) \in MessagesFrom(F)
      /\ \A i \in DOMAIN Tail(o) : \E j \in DOMAIN o : Tail(o)[i] = o[j]
      /\ \E j \in DOMAIN o : Head(o) = o[j]
  BY TailElements
<1>3. loop'.outgoing = Tail(o) /\ loop' \in LoopFrom(F)
  BY <1>1, <1>2 DEF LoopFrom
<1>4. upstream' \in Seq(MessagesFrom(F))
  BY <1>1, <1>2, AppendProperties
<1>5. LInv' /\ SameResolved
  BY <1>1, CoreRests DEF Good, Typed
<1>6. IsAdapter(adapter)'
  BY <1>1 DEF Good, Typed, IsAdapter, RequestTyped, Below
<1>7. Typed'
  BY <1>1, <1>3, <1>4, <1>5, <1>6, TypedStep DEF Good
<1>8. AllTold'
  <2>1. commands' = commands
    BY <1>1 DEF core
  <2>2. \A i \in DOMAIN upstream' :
          upstream'[i] = Head(o) \/ \E j \in DOMAIN upstream : upstream'[i] = upstream[j]
    BY <1>1, AppendElements
  <2>3. \A i \in DOMAIN upstream' :
           \/ \E j \in DOMAIN upstream : upstream'[i] = upstream[j]
           \/ \E j \in DOMAIN loop.outgoing : upstream'[i] = loop.outgoing[j]
    BY <1>2, <2>2
  <2>4. \A i \in DOMAIN loop'.outgoing :
           \E j \in DOMAIN loop.outgoing : loop'.outgoing[i] = loop.outgoing[j]
    BY <1>2, <1>3
  <2>5. AllTold /\ answers' = answers
    BY <1>1 DEF Good
  <2>6. /\ Ids(queue) \subseteq Ids(queue')
        /\ \A y \in Ids(queue) : queue'[y].resolution = queue[y].resolution
        /\ \A y \in Ids(queue') : y \in Ids(queue)
    BY <1>5 DEF SameResolved
  <2>. QED
    <3>1. NoneAsked
      BY <2>1 DEF NoneAsked
    <3>2. NoneReported
      BY <2>4 DEF NoneReported
    <3>3. NonePassedOn
      BY <2>3 DEF NonePassedOn
    <3>. QED
      BY <2>5, <2>6, <3>1, <3>2, <3>3, NothingNewSaid
<1>9. PendingHasOneCarrier'
  <2>1. \A id : Sending(id)' + Hearing(id)' = Sending(id) + Hearing(id)
    BY <1>1, <1>3, MessageSent DEF Good
  <2>2. \A id : Asking(id)' = Asking(id)
    BY <1>1, SameCommands DEF core
  <2>3. \A id : /\ Asking(id) \in Nat /\ Sending(id) \in Nat /\ Hearing(id) \in Nat
    BY Counts DEF Good
  <2>4. \A id : Sending(id)' \in Nat /\ Hearing(id)' \in Nat
    <3>1. loop'.outgoing \in Seq(MessagesFrom(F))
      BY <1>2, <1>3
    <3>. QED
      BY <1>4, <3>1, PlacesFinite DEF Sending, Hearing
  <2>5. ASSUME NEW id
        PROVE  Asking(id)' + Sending(id)' + Hearing(id)'
                 = Asking(id) + Sending(id) + Hearing(id)
    BY <2>1, <2>2, <2>3, <2>4, PassedOn
  <2>. QED
    BY <1>5, <1>7, <2>5, CarriersBalance
<1>. QED
  BY <1>7, <1>8, <1>9 DEF Good

(* Steps that leave core, channels and what is to be sent alone.           *)
LEMMA RestStep ==
  ASSUME Good, UNCHANGED core, upstream' = upstream, answers' = answers,
         loop'.outgoing = loop.outgoing, \E F : loop' \in LoopFrom(F),
         IsAdapter(adapter)'
  PROVE  Good'
<1>1. LInv' /\ SameResolved
  BY CoreRests DEF Good, Typed
<1>2. Typed'
  BY <1>1, TypedStep, LoopEffect DEF Good
<1>3. AllTold'
  <2>1. commands' = commands
    BY DEF core
  <2>. QED
    BY <1>1, <2>1, NothingNewSaid
     DEF Good, SameResolved, NoneAsked, NoneReported, NonePassedOn
<1>4. PendingHasOneCarrier'
  <2>1. \A id : /\ Asking(id)' = Asking(id) /\ Hearing(id)' = Hearing(id)
                /\ Sending(id)' = Sending(id)
    BY SameCommands, SameUpstream, SameLoop DEF core
  <2>. QED
    BY <1>1, <1>2, <2>1, CarriersBalance
<1>. QED
  BY <1>2, <1>3, <1>4 DEF Good

LEMMA SelectStep == ASSUME Good, SelectTimeout PROVE Good'
<1>1. /\ UNCHANGED core /\ adapter' = adapter /\ answers' = answers
      /\ upstream' = upstream /\ loop' = [loop EXCEPT !.at = "poll"]
  BY DEF SelectTimeout, history, agentSide
<1>. PICK F : loop \in LoopFrom(F)
  BY LoopEffect DEF Good
<1>2. loop'.outgoing = loop.outgoing /\ loop' \in LoopFrom(F)
  BY <1>1 DEF LoopFrom
<1>3. IsAdapter(adapter)'
  BY <1>1 DEF Good, Typed, IsAdapter, RequestTyped, Below
<1>. QED
  BY <1>1, <1>2, <1>3, RestStep

LEMMA AgentStep ==
  ASSUME Good, AgentMoves
  PROVE  Good' /\ (adapter' = adapter \/ Evolves(adapter, adapter'))
<1>1. /\ UNCHANGED core /\ answers' = answers
      /\ upstream' = upstream /\ loop' = loop
  BY DEF AgentMoves, history
<1>. PICK F : loop \in LoopFrom(F)
  BY LoopEffect DEF Good
<1>2. loop'.outgoing = loop.outgoing /\ loop' \in LoopFrom(F)
  BY <1>1
<1>3. CASE Agent!AgentShows \/ Agent!AgentDies
  <2>1. adapter' = adapter
    BY <1>3 DEF Agent!AgentShows, Agent!AgentDies
  <2>2. IsAdapter(adapter)'
    BY <2>1 DEF Good, Typed, IsAdapter, RequestTyped, Below
  <2>. QED
    BY <1>1, <1>2, <2>1, <2>2, RestStep
<1>4. CASE Agent!GraceEnds \/ Agent!WriteInLate
  <2>1. Evolves(adapter, adapter')
    BY <1>4, DeadlineEvolves, LoopEffect DEF Good
  <2>2. IsAdapter(adapter)'
    BY <2>1 DEF Evolves, IsAdapter, RequestTyped, Below
  <2>. QED
    BY <1>1, <1>2, <2>1, <2>2, RestStep
<1>. QED
  BY <1>3, <1>4 DEF AgentMoves

(* A step on the core that leaves the adapter and the loop alone.          *)
LEMMA CoreStepTyped ==
  ASSUME Typed, LInv', UNCHANGED <<adapter, loop, answers>>,
         \E F : upstream' \in Seq(MessagesFrom(F))
  PROVE  Typed'
<1>1. IsAdapter(adapter)' /\ \E F : loop' \in LoopFrom(F)
  BY DEF Typed, IsAdapter, RequestTyped, Below
<1>. QED
  BY <1>1, TypedStep

LEMMA EventStep == ASSUME Good, CoreEvent PROVE Good'
<1>1. /\ UNCHANGED <<adapter, loop, answers>>
      /\ upstream # <<>> /\ Head(upstream).type = "event"
      /\ upstream' = Tail(upstream)
  BY DEF CoreEvent, agentSide
<1>2. /\ LInv' /\ commands' = commands
      /\ Ids(queue') = Ids(queue) \cup {Len(queue) + 1}
      /\ \A y \in Ids(queue) : queue'[y].resolution = queue[y].resolution
      /\ queue'[Len(queue) + 1].resolution \in {"None", "Unresolved"}
      /\ Ids(queue) = 1..Len(queue) /\ Len(queue) \in Nat
  BY EventEffect DEF Good
<1>. PICK F : upstream \in Seq(MessagesFrom(F))
  BY LoopEffect DEF Good
<1>3. /\ upstream' \in Seq(MessagesFrom(F))
      /\ \A i \in DOMAIN upstream' : \E j \in DOMAIN upstream : upstream'[i] = upstream[j]
  BY <1>1, TailElements
<1>4. Typed'
  BY <1>1, <1>2, <1>3, CoreStepTyped DEF Good
<1>5. AllTold'
  BY <1>1, <1>2, <1>3, NothingNewSaid
     DEF Good, NoneAsked, NoneReported, NonePassedOn
<1>6. PendingHasOneCarrier'
  <2>1. \A id : /\ Asking(id)' = Asking(id) /\ Sending(id)' = Sending(id)
    BY <1>1, <1>2, SameCommands, SameLoop
  <2>2. ASSUME NEW id PROVE Hearing(id)' = Hearing(id)
    <3>1. Hearing(id) = Hearing(id)' + 0
      BY <1>1, MessageHeard DEF Good
    <3>2. Hearing(id)' \in Nat
      BY <1>3, PlacesFinite DEF Hearing
    <3>. QED
      BY <3>1, <3>2
  <2>3. \A id : InFlight(id) = Asking(id) + Sending(id) + Hearing(id)
    BY Counts DEF Good
  <2>4. \A id : InFlight(id)' = Asking(id)' + Sending(id)' + Hearing(id)'
    BY DEF InFlight, Asking, Sending, Hearing
  <2>5. \A id : InFlight(id)' = InFlight(id)
    BY <2>1, <2>2, <2>3, <2>4
  <2>6. Len(queue) + 1 \notin Ids(queue)
    BY <1>2
  <2>7. InFlight(Len(queue) + 1) = 0
    BY <2>3, <2>6, UnknownUncarried
  <2>8. \A id \in Ids(queue) :
          InFlight(id) = IF queue[id].resolution = "PendingDelivery" THEN 1 ELSE 0
    BY DEF Good, PendingHasOneCarrier
  <2>. SUFFICES ASSUME NEW id \in Ids(queue')
                PROVE  InFlight(id) =
                         IF queue'[id].resolution = "PendingDelivery" THEN 1 ELSE 0
    BY <2>5 DEF PendingHasOneCarrier
  <2>9. CASE id \in Ids(queue)
    BY <1>2, <2>8, <2>9
  <2>10. CASE id = Len(queue) + 1
    BY <1>2, <2>7, <2>10
  <2>. QED
    BY <1>2, <2>9, <2>10
<1>. QED
  BY <1>4, <1>5, <1>6 DEF Good

LEMMA HearStep == ASSUME Good, CoreOutcome PROVE Good'
<1>1. /\ UNCHANGED <<adapter, loop, answers>>
      /\ upstream # <<>> /\ upstream' = Tail(upstream)
  BY DEF CoreOutcome, agentSide, history
<1>. PICK F : upstream \in Seq(MessagesFrom(F))
  BY LoopEffect DEF Good
<1>2. /\ upstream' \in Seq(MessagesFrom(F))
      /\ \A i \in DOMAIN upstream' : \E j \in DOMAIN upstream : upstream'[i] = upstream[j]
      /\ 1 \in DOMAIN upstream /\ Head(upstream) = upstream[1]
      /\ Head(upstream) \in MessagesFrom(F)
  BY <1>1, TailElements
<1>. PICK w \in MessagesFrom(F) : w = Head(upstream) /\ w = upstream[1]
  BY <1>2
<1>3. /\ w.type = "outcome"
      /\ IF w.delivered THEN Delivered(w.id, w.decision) ELSE DeliveryFailed(w.id)
  BY DEF CoreOutcome
<1>4. w.id \in Nat /\ w.decision \in Decisions /\ w.delivered \in BOOLEAN
  BY <1>3 DEF MessagesFrom
<1>5. WordTold(w) /\ w.id \in Ids(queue)
  BY <1>2, <1>3 DEF Good, AllTold, WordTold
<1>6. /\ \A id : Hearing(id) = Hearing(id)' +
           IF w.type = "outcome" /\ w.id = id THEN 1 ELSE 0
      /\ \A id : Sending(id)' = Sending(id)
  BY <1>1, MessageHeard, SameLoop DEF Good
<1>7. /\ \A id : Hearing(id)' \in Nat
      /\ \A id : Asking(id) \in Nat /\ Sending(id) \in Nat /\ Hearing(id) \in Nat
  BY <1>2, PlacesFinite, Counts DEF Good, Hearing
<1>8. Hearing(w.id) = Hearing(w.id)' + 1
  BY <1>3, <1>6
<1>9. /\ queue[w.id].resolution = "PendingDelivery"
      /\ Asking(w.id) + Sending(w.id) + Hearing(w.id) = 1
  BY <1>5, <1>7, <1>8, OnlyCarrier
<1>. PICK x : x = IF w.delivered THEN w.decision ELSE "Unresolved"
  OBVIOUS
<1>10. LInv' /\ Resolved(w.id, x) /\ commands' = commands
  BY <1>3, <1>4, <1>5, <1>9, OutcomeEffect DEF Good, Typed
<1>11. Typed'
  BY <1>1, <1>2, <1>10, CoreStepTyped DEF Good
<1>12. AllTold'
  BY <1>1, <1>2, <1>3, <1>4, <1>5, <1>10, HeardTold DEF Good
<1>13. PendingHasOneCarrier'
  <2>1. \A id : Asking(id)' = Asking(id)
    BY <1>10, SameCommands
  <2>2. \A id : InFlight(id) = Asking(id) + Sending(id) + Hearing(id)
    BY Counts DEF Good
  <2>3. \A id : InFlight(id)' = Asking(id)' + Sending(id)' + Hearing(id)'
    BY DEF InFlight, Asking, Sending, Hearing
  <2>4. \A id \in Ids(queue) :
          InFlight(id) = IF queue[id].resolution = "PendingDelivery" THEN 1 ELSE 0
    BY DEF Good, PendingHasOneCarrier
  <2>5. InFlight(w.id)' = 0
    BY <1>6, <1>7, <1>8, <1>9, <2>1, <2>3
  <2>6. x # "PendingDelivery"
    BY <1>4 DEF Decisions
  <2>7. ASSUME NEW id \in Ids(queue), id # w.id
        PROVE  InFlight(id)' =
                 IF queue'[id].resolution = "PendingDelivery" THEN 1 ELSE 0
    <3>1. Hearing(id) = Hearing(id)' + 0
      BY <1>6, <2>7
    <3>2. InFlight(id)' = InFlight(id)
      BY <1>6, <1>7, <2>1, <2>2, <2>3, <3>1
    <3>3. queue'[id].resolution = queue[id].resolution
      BY <1>10, <2>7 DEF Resolved
    <3>. QED
      BY <2>4, <3>2, <3>3
  <2>8. Ids(queue') = Ids(queue) /\ queue'[w.id].resolution = x
    BY <1>5, <1>10 DEF Resolved
  <2>. QED
    BY <2>5, <2>6, <2>7, <2>8 DEF PendingHasOneCarrier
<1>. QED
  BY <1>11, <1>12, <1>13 DEF Good

LEMMA DecideStep == ASSUME Good, ClientDecides PROVE Good'
<1>1. /\ UNCHANGED <<adapter, loop, answers>> /\ upstream' = upstream
  BY DEF ClientDecides, agentSide, history
<1>2. PICK c \in Clients, id \in Ids(queue), d \in Decisions :
        RespondSent(c, id, d) \/ RespondOverflow(c, id, d)
  BY DEF ClientDecides
<1>3. CASE RespondOverflow(c, id, d)
  <2>1. LInv' /\ SameResolved /\ commands' = commands
    BY <1>3, OverflowEffect DEF Good, Typed
  <2>2. Typed'
    BY <1>1, <2>1, CoreStepTyped, LoopEffect DEF Good
  <2>3. AllTold'
    BY <1>1, <2>1, NothingNewSaid
     DEF Good, SameResolved, NoneAsked, NoneReported, NonePassedOn
  <2>4. \A y : /\ Asking(y)' = Asking(y) /\ Hearing(y)' = Hearing(y)
               /\ Sending(y)' = Sending(y)
    BY <1>1, <2>1, SameCommands, SameUpstream, SameLoop
  <2>5. PendingHasOneCarrier'
    BY <2>1, <2>2, <2>4, CarriersBalance
  <2>. QED
    BY <2>2, <2>3, <2>5 DEF Good
<1>4. CASE RespondSent(c, id, d)
  <2>1. /\ LInv' /\ queue[id].resolution = "Unresolved"
        /\ Resolved(id, "PendingDelivery")
        /\ commands' = Append(commands, RespondCommand(id, d))
    BY <1>4, SentEffect DEF Good, Typed
  <2>2. Typed'
    BY <1>1, <2>1, CoreStepTyped, LoopEffect DEF Good
  <2>. PICK S : commands \in Seq(S)
    BY DEF Good, Typed, LInv, CommandsTyped
  <2>3. AllTold'
    <3>1. \A i \in DOMAIN commands' :
            \/ commands'[i] = RespondCommand(id, d)
            \/ \E j \in DOMAIN commands : commands'[i] = commands[j]
      BY <2>1, AppendElements
    <3>. QED
      BY <1>1, <2>1, <3>1, AskedTold DEF Good
  <2>4. \A y : Asking(y)' = Asking(y) + IF y = id THEN 1 ELSE 0
    <3>1. PICK m : m = RespondCommand(id, d)
      OBVIOUS
    <3>2. m.type = "respond" /\ m.id = id
      BY <3>1 DEF RespondCommand
    <3>3. \A y : Asking(y)' = Asking(y) +
            IF m.type = "respond" /\ m.id = y THEN 1 ELSE 0
      BY <2>1, <3>1, CommandAdded DEF Good
    <3>. QED
      BY <3>2, <3>3
  <2>5. \A y : Hearing(y)' = Hearing(y) /\ Sending(y)' = Sending(y)
    BY <1>1, SameUpstream, SameLoop
  <2>6. \A y : /\ InFlight(y) = Asking(y) + Sending(y) + Hearing(y)
               /\ Asking(y) \in Nat /\ Sending(y) \in Nat /\ Hearing(y) \in Nat
    BY Counts DEF Good
  <2>7. \A y : InFlight(y)' = Asking(y)' + Sending(y)' + Hearing(y)'
    BY DEF InFlight, Asking, Sending, Hearing
  <2>8. \A y \in Ids(queue) :
          InFlight(y) = IF queue[y].resolution = "PendingDelivery" THEN 1 ELSE 0
    BY DEF Good, PendingHasOneCarrier
  <2>9. ASSUME NEW y \in Ids(queue)
        PROVE  InFlight(y)' =
                 IF queue'[y].resolution = "PendingDelivery" THEN 1 ELSE 0
    <3>1. CASE y = id
      <4>1. InFlight(y) = 0 /\ Asking(y)' = Asking(y) + 1
        BY <2>1, <2>4, <2>8, <3>1
      <4>2. InFlight(y)' = 1
        BY <2>5, <2>6, <2>7, <4>1
      <4>3. queue'[y].resolution = "PendingDelivery"
        BY <2>1, <3>1 DEF Resolved
      <4>. QED
        BY <4>2, <4>3
    <3>2. CASE y # id
      <4>1. Asking(y)' = Asking(y) + 0
        BY <2>4, <3>2
      <4>2. InFlight(y)' = InFlight(y)
        BY <2>5, <2>6, <2>7, <4>1
      <4>3. queue'[y].resolution = queue[y].resolution
        BY <2>1, <3>2 DEF Resolved
      <4>. QED
        BY <2>8, <4>2, <4>3
    <3>. QED
      BY <3>1, <3>2
  <2>10. PendingHasOneCarrier'
    <3>1. Ids(queue') = Ids(queue)
      BY <2>1 DEF Resolved
    <3>. QED
      BY <2>9, <3>1 DEF PendingHasOneCarrier
  <2>. QED
    BY <2>2, <2>3, <2>10 DEF Good
<1>. QED
  BY <1>2, <1>3, <1>4

LEMMA PromptSentStep == ASSUME Good, ClientPrompts PROVE Good'
<1>1. /\ UNCHANGED <<adapter, loop, answers>> /\ upstream' = upstream
  BY DEF ClientPrompts, agentSide, history
<1>2. PICK c \in Clients : ClientStartTask(c)
  BY DEF ClientPrompts
<1>3. LInv' /\ SameResolved
  BY <1>2, ChannelEffect DEF Good, Typed
<1>4. Typed'
  BY <1>1, <1>3, CoreStepTyped, LoopEffect DEF Good
<1>. PICK S : commands \in Seq(S)
  BY DEF Good, Typed, LInv, CommandsTyped
<1>5. commands' = commands \/ commands' = Append(commands, StartTask)
  BY <1>2 DEF ClientStartTask
<1>6. StartTask.type # "respond"
  BY DEF StartTask
<1>7. \A i \in DOMAIN commands' :
        \/ commands'[i].type # "respond"
        \/ \E j \in DOMAIN commands : commands'[i] = commands[j]
  <2>1. CASE commands' = commands
    BY <2>1
  <2>2. CASE commands' = Append(commands, StartTask)
    BY <1>6, <2>2, AppendElements
  <2>. QED
    BY <1>5, <2>1, <2>2
<1>8. AllTold'
  BY <1>1, <1>3, <1>7, NothingNewSaid
     DEF Good, SameResolved, NoneAsked, NoneReported, NonePassedOn
<1>9. ASSUME NEW y PROVE Asking(y)' = Asking(y)
  <2>1. CASE commands' = commands
    BY <2>1, SameCommands
  <2>2. CASE commands' = Append(commands, StartTask)
    <3>1. Asking(y)' = Asking(y) + 0
      BY <1>6, <2>2, CommandAdded DEF Good
    <3>2. Asking(y) \in Nat
      BY Counts DEF Good
    <3>. QED
      BY <3>1, <3>2
  <2>. QED
    BY <1>5, <2>1, <2>2
<1>10. \A y : Hearing(y)' = Hearing(y) /\ Sending(y)' = Sending(y)
  BY <1>1, SameUpstream, SameLoop
<1>11. PendingHasOneCarrier'
  BY <1>3, <1>4, <1>9, <1>10, CarriersBalance
<1>. QED
  BY <1>4, <1>8, <1>11 DEF Good

(* What the loop does with the oldest command is the word it then sends.   *)
LEMMA DeliverEffect ==
  ASSUME IsAdapter(adapter), DeliverDecision
  PROVE  LET command == Head(commands) IN
         \E ok \in BOOLEAN :
           /\ loop' = [at |-> "poll",
                       outgoing |-> <<[type |-> "outcome", id |-> command.id,
                                       decision |-> command.decision,
                                       delivered |-> ok]>>]
           /\ Evolves(adapter, adapter')
           /\ ~ok => answers' = answers
           /\ ok => /\ answers' = Append(answers,
                                    [id |-> command.id,
                                     decision |-> command.decision,
                                     session |-> session,
                                     screen |-> adapter'.typed.into])
                    /\ adapter.pending # None
                    /\ adapter.pending.seq = command.seq
                    /\ Agent!SameRequest(adapter.pending.screen,
                                         adapter'.typed.into)
<1>. PICK command : command = Head(commands)
  OBVIOUS
<1>. PICK response \in ResponsesFor(Head(commands).decision), sent \in BOOLEAN :
       LET error == Agent!RespondError(adapter, command.seq, response, sent) IN
       /\ adapter' = Agent!Responded(adapter, command.seq, response, sent)
       /\ loop' = [at |-> "poll", outgoing |-> Report(command, error)]
       /\ answers' = IF error = "ok"
                     THEN Append(answers,
                            [id |-> command.id, decision |-> command.decision,
                             session |-> session,
                             screen |-> adapter'.typed.into])
                     ELSE answers
  BY DEF DeliverDecision
<1>. PICK error :
       error = Agent!RespondError(adapter, command.seq, response, sent)
  OBVIOUS
<1>1. /\ Evolves(adapter, adapter')
      /\ error = "ok" =>
           /\ adapter.pending # None /\ adapter.pending.seq = command.seq
           /\ Agent!SameRequest(adapter.pending.screen, adapter'.typed.into)
  BY RespondedEvolves
<1>. PICK ok \in BOOLEAN : ok = (error = "ok")
  OBVIOUS
<1>2. loop' = [at |-> "poll",
               outgoing |-> <<[type |-> "outcome", id |-> command.id,
                               decision |-> command.decision,
                               delivered |-> ok]>>]
  BY DEF Report, Outcome
<1>. QED
  BY <1>1, <1>2

LEMMA DeliverStep == ASSUME Good, DeliverDecision PROVE Good'
<1>1. /\ loop.outgoing = <<>> /\ commands # <<>>
      /\ Head(commands).type = "respond" /\ TakeCommand
      /\ commands' = Tail(commands) /\ queue' = queue
      /\ upstream' = upstream
  BY DEF DeliverDecision, Waiting, TakeCommand
<1>. PICK S : commands \in Seq(S)
  BY DEF Good, Typed, LInv, CommandsTyped
<1>. PICK T : answers \in Seq(T)
  BY DEF Good, Typed
<1>. PICK command \in S : command = Head(commands)
  BY <1>1, HeadTailProperties
<1>2. PICK ok \in BOOLEAN :
           /\ loop' = [at |-> "poll",
                       outgoing |-> <<[type |-> "outcome", id |-> command.id,
                                       decision |-> command.decision,
                                       delivered |-> ok]>>]
           /\ Evolves(adapter, adapter')
           /\ ~ok => answers' = answers
           /\ ok => answers' = Append(answers,
                                    [id |-> command.id,
                                     decision |-> command.decision,
                                     session |-> session,
                                     screen |-> adapter'.typed.into])
  BY DeliverEffect, LoopEffect DEF Good
<1>3. /\ \A i \in DOMAIN commands' : \E j \in DOMAIN commands : commands'[i] = commands[j]
      /\ 1 \in DOMAIN commands /\ command = commands[1] /\ commands' \in Seq(S)
  BY <1>1, TailElements
<1>4. /\ command.type = "respond" /\ command.id \in Ids(queue)
      /\ command.decision \in Decisions /\ NotTyped(command.id)
  BY <1>1, <1>3 DEF Good, AllTold, AskTold
<1>. PICK m : m = [type |-> "outcome", id |-> command.id,
                   decision |-> command.decision, delivered |-> ok]
  OBVIOUS
<1>5. /\ m.type = "outcome" /\ m.id = command.id /\ m.delivered = ok
      /\ m.decision = command.decision
      /\ loop' = [at |-> "poll", outgoing |-> <<m>>]
      /\ loop'.outgoing = <<m>>
  BY <1>2
<1>6. command.id \in Nat
  BY <1>4, Store DEF Good, Typed, LInv
<1>7. m \in MessagesFrom({})
  BY <1>4, <1>6 DEF MessagesFrom
<1>8. loop' \in LoopFrom({})
  BY <1>5, <1>7 DEF LoopFrom
<1>9. \A i \in DOMAIN loop'.outgoing : loop'.outgoing[i] = m
  BY <1>5
<1>10. LInv' /\ SameResolved
  BY <1>1, ChannelEffect DEF Good, Typed
<1>11. Typed'
  <2>1. IsAdapter(adapter)'
    BY <1>2 DEF Evolves, IsAdapter, RequestTyped, Below
  <2>2. \E U : answers' \in Seq(U)
    <3>1. CASE ~ok
      BY <1>2, <3>1
    <3>2. CASE ok
      <4>. PICK e : e = [id |-> command.id, decision |-> command.decision,
                         session |-> session, screen |-> adapter'.typed.into]
        OBVIOUS
      <4>1. Append(answers, e) \in Seq(T \cup {e})
        BY AppendElements
      <4>. QED
        BY <1>2, <3>2, <4>1
    <3>. QED
      BY <3>1, <3>2
  <2>. PICK F : upstream \in Seq(MessagesFrom(F))
    BY LoopEffect DEF Good
  <2>3. /\ upstream' \in Seq(MessagesFrom(F))
        /\ loop' \in LoopFrom(F)
    BY <1>1, <1>8, Widened DEF LoopFrom
  <2>. QED
    BY <1>10, <2>1, <2>2, <2>3 DEF Typed
<1>12. /\ \A y : Asking(y) = Asking(y)' +
             IF command.type = "respond" /\ command.id = y THEN 1 ELSE 0
       /\ \A y : /\ Sending(y) = 0
                 /\ Sending(y)' = IF m.type = "outcome" /\ m.id = y THEN 1 ELSE 0
       /\ \A y : Hearing(y)' = Hearing(y)
  BY <1>1, <1>5, CommandTaken, LoopReports, SameUpstream DEF Good
<1>13. /\ \A y : Asking(y)' \in Nat
       /\ \A y : Asking(y) \in Nat /\ Sending(y) \in Nat /\ Hearing(y) \in Nat
  <2>1. \A y : Asking(y)' \in Nat
    BY <1>3, PlacesFinite DEF Asking
  <2>. QED
    BY <2>1, Counts DEF Good
<1>14. /\ Asking(command.id) = Asking(command.id)' + 1
       /\ Sending(command.id) = 0
  BY <1>4, <1>12
<1>15. /\ queue[command.id].resolution = "PendingDelivery"
       /\ Asking(command.id) + Sending(command.id) + Hearing(command.id) = 1
  BY <1>4, <1>13, <1>14, OnlyCarrier
<1>16. Asking(command.id)' = 0 /\ Hearing(command.id) = 0
  BY <1>13, <1>14, <1>15
<1>17. AllTold'
  <2>1. CASE ~ok
    BY <1>1, <1>2, <1>3, <1>4, <1>5, <1>9, <2>1, UntypedTold DEF Good
  <2>2. CASE ok
    <3>. PICK e : e = [id |-> command.id, decision |-> command.decision,
                       session |-> session, screen |-> adapter'.typed.into]
      OBVIOUS
    <3>1. e.id = command.id /\ e.decision = command.decision
      OBVIOUS
    <3>2. answers' = Append(answers, e)
      BY <1>2, <2>2
    <3>3. OthersAsked(e.id)
      <4>1. \A i \in DOMAIN commands' :
              ~(commands'[i].type = "respond" /\ commands'[i].id = command.id)
        BY <1>3, <1>16, PlacesFinite DEF Asking
      <4>. QED
        BY <1>3, <3>1, <4>1 DEF OthersAsked
    <3>4. NoWordOf(e.id)
      BY <1>16, <3>1, Counts DEF Good, NoWordOf
    <3>5. OnlyDelivered(e.id, e.decision)
      BY <1>5, <1>9, <2>2, <3>1 DEF OnlyDelivered
    <3>6. /\ e.id \in Ids(queue) /\ NotTyped(e.id)
          /\ queue[e.id].resolution = "PendingDelivery"
      BY <1>4, <1>15, <3>1
    <3>7. AllTold /\ queue' = queue /\ upstream' = upstream
      BY <1>1 DEF Good
    <3>. QED
      BY <3>2, <3>3, <3>4, <3>5, <3>6, <3>7, TypedTold
  <2>. QED
    BY <2>1, <2>2
<1>18. PendingHasOneCarrier'
  <2>1. ASSUME NEW y
        PROVE  Asking(y)' + Sending(y)' + Hearing(y)'
                 = Asking(y) + Sending(y) + Hearing(y)
    <3>1. CASE y = command.id
      <4>1. Sending(y)' = 1
        BY <1>5, <1>12, <3>1
      <4>. QED
        BY <1>12, <1>13, <1>14, <3>1, <4>1
    <3>2. CASE y # command.id
      <4>1. Sending(y)' = 0 /\ Asking(y) = Asking(y)' + 0 /\ Sending(y) = 0
        BY <1>5, <1>12, <3>2
      <4>. QED
        BY <1>12, <1>13, <4>1
    <3>. QED
      BY <3>1, <3>2
  <2>. QED
    BY <1>10, <1>11, <2>1, CarriersBalance
<1>. QED
  BY <1>11, <1>17, <1>18 DEF Good

LEMMA PromptStep == ASSUME Good, DeliverPrompt PROVE Good'
<1>1. /\ commands # <<>> /\ Head(commands).type = "start_task" /\ TakeCommand
      /\ commands' = Tail(commands) /\ upstream' = upstream
      /\ answers' = answers
      /\ loop' = [loop EXCEPT !.at = "poll"]
      /\ adapter' = adapter \/ adapter' = Agent!NewAdapter(TRUE)
  BY DEF DeliverPrompt, TakeCommand, history
<1>. PICK S : commands \in Seq(S)
  BY DEF Good, Typed, LInv, CommandsTyped
<1>. PICK F : loop \in LoopFrom(F)
  BY LoopEffect DEF Good
<1>2. loop' \in LoopFrom(F) /\ loop'.outgoing = loop.outgoing
  BY <1>1 DEF LoopFrom
<1>3. IsAdapter(adapter)'
  <2>1. IsAdapter(adapter) /\ IsAdapter(Agent!NewAdapter(TRUE))
    BY FreshAdapter, LoopEffect DEF Good
  <2>2. IsAdapter(adapter')
    BY <1>1, <2>1
  <2>. QED
    BY <2>2 DEF IsAdapter, RequestTyped, Below
<1>4. LInv' /\ SameResolved
  BY <1>1, ChannelEffect DEF Good, Typed
<1>5. Typed'
  BY <1>1, <1>2, <1>3, <1>4, TypedStep, LoopEffect DEF Good
<1>6. \A i \in DOMAIN commands' : \E j \in DOMAIN commands : commands'[i] = commands[j]
  BY <1>1, TailElements
<1>7. AllTold'
  BY <1>1, <1>2, <1>4, <1>6, NothingNewSaid
     DEF Good, SameResolved, NoneAsked, NoneReported, NonePassedOn
<1>8. ASSUME NEW y PROVE Asking(y)' = Asking(y)
  <2>1. Asking(y) = Asking(y)' + 0
    BY <1>1, CommandTaken DEF Good
  <2>2. Asking(y)' \in Nat
    <3>1. commands' \in Seq(S)
      BY <1>1, HeadTailProperties
    <3>. QED
      BY <3>1, PlacesFinite DEF Asking
  <2>. QED
    BY <2>1, <2>2
<1>9. \A y : Hearing(y)' = Hearing(y) /\ Sending(y)' = Sending(y)
  BY <1>1, <1>2, SameUpstream, SameLoop
<1>10. PendingHasOneCarrier'
  BY <1>4, <1>5, <1>8, <1>9, CarriersBalance
<1>. QED
  BY <1>5, <1>7, <1>10 DEF Good

LEMMA DaemonStep == ASSUME Good, [DaemonNext]_daemon PROVE Good'
<1>1. CASE UNCHANGED daemon
  <2>1. /\ UNCHANGED core /\ upstream' = upstream /\ answers' = answers
        /\ loop' = loop /\ adapter' = adapter
    BY <1>1 DEF daemon, history, agentSide
  <2>2. IsAdapter(adapter)' /\ \E F : loop' \in LoopFrom(F)
    BY <2>1 DEF Good, Typed, IsAdapter, RequestTyped, Below
  <2>. QED
    BY <2>1, <2>2, RestStep
<1>. QED
  BY <1>1, PollStep, SendStep, SelectStep, DeliverStep, PromptStep, EventStep,
     HearStep, DecideStep, PromptSentStep, AgentStep
     DEF DaemonNext, LoopNext, CoreNext

LEMMA DaemonStarts == DaemonInit => Good
<1>. SUFFICES ASSUME DaemonInit PROVE Good
  OBVIOUS
<1>1. /\ Init /\ Agent!Init /\ upstream = <<>> /\ answers = <<>>
      /\ loop = [at |-> "poll", outgoing |-> <<>>]
      /\ queue = <<>> /\ commands = <<>>
  BY DEF DaemonInit, Init
<1>2. Ids(queue) = {} /\ DOMAIN commands = {} /\ DOMAIN upstream = {}
      /\ DOMAIN answers = {} /\ DOMAIN loop.outgoing = {}
  BY <1>1 DEF Ids
<1>3. LInv
  <2>1. commands \in Seq({})
    BY <1>1, EmptySeq
  <2>. QED
    BY <1>1, <1>2, <2>1, InitIInv DEF LInv, CommandsTyped, NothingPending
<1>4. IsAdapter(adapter)
  BY <1>1, FreshAdapter DEF Agent!Init
<1>5. /\ upstream \in Seq(MessagesFrom({})) /\ answers \in Seq({})
      /\ loop \in LoopFrom({})
  BY <1>1, EmptySeq DEF LoopFrom
<1>6. Typed
  BY <1>3, <1>4, <1>5 DEF Typed
<1>7. AllTold /\ PendingHasOneCarrier
  BY <1>2 DEF AllTold, QueueTold, PendingHasOneCarrier
<1>. QED
  BY <1>6, <1>7 DEF Good

LEMMA DaemonInvariant == DaemonSpec => []Good
<1>1. Good /\ [DaemonNext]_daemon => Good'
  BY DaemonStep
<1>. QED
  BY <1>1, DaemonStarts, PTL DEF DaemonSpec

(* OneCarrier: a request waits for the word of a delivery exactly while one *)
(* command or outcome of it is on its way, whatever the sizes of the       *)
(* channels (core_task.rs:558, main.rs:506).                               *)
THEOREM OneCarrier == DaemonSpec => []PendingHasOneCarrier
<1>1. Good => PendingHasOneCarrier
  BY DEF Good
<1>. QED
  BY <1>1, DaemonInvariant, PTL

(* TypedOnce: whatever clients, core, loop and agent do, a decision the     *)
(* queue shows was typed once, and one that can still be made was not.     *)
THEOREM TypedOnce == DaemonSpec => []DecisionTypedOnce
<1>1. Good => DecisionTypedOnce
  <2>. SUFFICES ASSUME Good, NEW id \in Ids(queue)
                PROVE  LET typed == {i \in DOMAIN answers : answers[i].id = id} IN
                  /\ queue[id].resolution \in Decisions
                       => /\ Cardinality(typed) = 1
                          /\ \A i \in typed :
                               answers[i].decision = queue[id].resolution
                  /\ IsActionable(queue[id]) => typed = {}
    BY DEF DecisionTypedOnce
  <2>. DEFINE typed == {i \in DOMAIN answers : answers[i].id = id}
  <2>1. ASSUME queue[id].resolution \in Decisions
        PROVE  /\ Cardinality(typed) = 1
               /\ \A i \in typed : answers[i].decision = queue[id].resolution
    <3>1. TypedAs(id, queue[id].resolution)
      BY <2>1 DEF Good, AllTold, QueueTold
    <3>2. PICK i \in DOMAIN answers :
            /\ answers[i].id = id /\ answers[i].decision = queue[id].resolution
            /\ \A j \in DOMAIN answers : answers[j].id = id => j = i
      BY <3>1 DEF TypedAs
    <3>3. typed = {i}
      BY <3>2
    <3>. QED
      BY <3>2, <3>3, FS_Singleton
  <2>2. ASSUME IsActionable(queue[id]) PROVE typed = {}
    BY <2>2 DEF IsActionable, Good, AllTold, QueueTold, NotTyped
  <2>. QED
    BY <2>1, <2>2
<1>. QED
  BY <1>1, DaemonInvariant, PTL

-----------------------------------------------------------------------------
(* Whose dialog an answer is typed into.  An event of the running process  *)
(* has a number that was given, and if it has the number of the pending    *)
(* request it is that request.                                             *)

KnownTo(a, n, seq, from) ==
  /\ from.session \in 1..n
  /\ from.session = n =>
       /\ seq <= a.seq
       /\ a.pending # None /\ seq = a.pending.seq
            => Agent!SameRequest(from.screen, a.pending.screen)

MessageKnown(m) == m.type = "event" => KnownTo(adapter, session, m.seq, m.from)

OwnAnswers ==
  \A i \in DOMAIN answers :
    LET shown == origin[answers[i].id] IN
    answers[i].session = shown.session
      => Agent!SameRequest(shown.screen, answers[i].screen)

Own ==
  /\ session \in 1..MaxSessions
  /\ \A i \in DOMAIN loop.outgoing : MessageKnown(loop.outgoing[i])
  /\ \A i \in DOMAIN upstream : MessageKnown(upstream[i])
  /\ Len(origin) = Len(events) /\ \E S : origin \in Seq(S)
  /\ \A id \in DOMAIN events :
       KnownTo(adapter, session, events[id].agentSeq, origin[id])
  /\ \A i \in DOMAIN commands : commands[i].type = "respond" =>
       commands[i].seq = events[commands[i].id].agentSeq
  /\ \A i \in DOMAIN answers : answers[i].session \in 1..session
  /\ OwnAnswers

LEMMA KnownEvolves ==
  ASSUME NEW a, IsAdapter(a), NEW b, a = b \/ Evolves(a, b), NEW n \in Nat,
         NEW seq \in Nat, NEW from, KnownTo(a, n, seq, from)
  PROVE  KnownTo(b, n, seq, from)
<1>1. CASE a = b
  BY <1>1
<1>2. CASE Evolves(a, b)
  <2>. SUFFICES ASSUME from.session = n
                PROVE  /\ seq <= b.seq
                       /\ b.pending # None /\ seq = b.pending.seq
                            => Agent!SameRequest(from.screen, b.pending.screen)
    BY DEF KnownTo
  <2>1. a.seq \in Nat /\ b.seq \in Nat /\ a.seq <= b.seq /\ seq <= a.seq
    BY <1>2 DEF Evolves, IsAdapter, KnownTo
  <2>2. ASSUME b.pending # None, seq = b.pending.seq
        PROVE  Agent!SameRequest(from.screen, b.pending.screen)
    <3>1. a.pending # None /\ b.pending.seq = a.pending.seq
          /\ Agent!SameRequest(a.pending.screen, b.pending.screen)
      BY <1>2, <2>1, <2>2 DEF Evolves
    <3>2. Agent!SameRequest(from.screen, a.pending.screen)
      BY <2>2, <3>1 DEF KnownTo
    <3>. QED
      BY <3>1, <3>2 DEF Agent!SameRequest
  <2>. QED
    BY <2>1, <2>2
<1>. QED
  BY <1>1, <1>2

(* The events a poll announces.                                            *)
LEMMA AnnouncedKnown ==
  ASSUME NEW a, IsAdapter(a), NEW n \in Nat \ {0}, NEW i \in DOMAIN a.out
  PROVE  KnownTo(a, n, a.out[i].seq,
                 [session |-> n, screen |-> ScreenOf(a, a.out[i])])
<1>. PICK from : from = [session |-> n, screen |-> ScreenOf(a, a.out[i])]
  OBVIOUS
<1>1. from.session = n /\ from.screen = ScreenOf(a, a.out[i])
  OBVIOUS
<1>2. a.out[i].seq <= a.seq
  BY DEF IsAdapter, Below
<1>3. ASSUME a.pending # None, a.out[i].seq = a.pending.seq
      PROVE  Agent!SameRequest(from.screen, a.pending.screen)
  <2>1. from.screen = a.pending.screen
    BY <1>1, <1>3 DEF ScreenOf
  <2>. QED
    BY <1>3, <2>1 DEF IsAdapter, RequestTyped, Agent!SameRequest
<1>4. n \in 1..n
  OBVIOUS
<1>. QED
  BY <1>1, <1>2, <1>3, <1>4 DEF KnownTo

LEMMA Numbered ==
  ASSUME Good, Own
  PROVE  /\ session \in Nat \ {0}
         /\ \A i \in DOMAIN loop.outgoing :
              loop.outgoing[i].type = "event" => loop.outgoing[i].seq \in Nat
         /\ \A i \in DOMAIN upstream :
              upstream[i].type = "event" => upstream[i].seq \in Nat
         /\ \A id \in DOMAIN events : events[id].agentSeq \in Nat
         /\ DOMAIN events = Ids(queue) /\ DOMAIN origin = DOMAIN events
<1>. PICK F : loop \in LoopFrom(F) /\ upstream \in Seq(MessagesFrom(F))
  BY DEF Good, Typed
<1>1. loop.outgoing \in Seq(MessagesFrom(F))
  BY DEF LoopFrom
<1>2. \A m \in MessagesFrom(F) : m.type = "event" => m.seq \in Nat
  BY DEF MessagesFrom
<1>3. /\ \A i \in DOMAIN loop.outgoing : loop.outgoing[i] \in MessagesFrom(F)
      /\ \A i \in DOMAIN upstream : upstream[i] \in MessagesFrom(F)
  <2>. HIDE DEF MessagesFrom
  <2>. QED
    BY <1>1, ElementOfSeq, LenProperties
<1>4. /\ events \in Seq(Event) /\ Ids(queue) = 1..Len(queue)
      /\ Len(queue) = Len(events)
  BY Store DEF Good, Typed, LInv
<1>5. \A id \in DOMAIN events : events[id] \in Event
  BY <1>4
<1>6. DOMAIN events = 1..Len(events) /\ DOMAIN origin = 1..Len(origin)
  BY <1>4, LenProperties DEF Own
<1>7. session \in Nat \ {0}
  BY DaemonAssumption DEF Own
<1>. QED
  BY <1>2, <1>3, <1>4, <1>5, <1>6, <1>7 DEF Event, Own

(* Steps that store no event and type no answer.                           *)
LEMMA OwnKept ==
  ASSUME Good, Own, session' = session,
         adapter' = adapter \/ Evolves(adapter, adapter'),
         events' = events, origin' = origin, answers' = answers,
         \A i \in DOMAIN commands' :
           \/ commands'[i].type # "respond"
           \/ commands'[i].seq = events[commands'[i].id].agentSeq,
         \A i \in DOMAIN loop'.outgoing :
           \/ loop'.outgoing[i].type # "event"
           \/ KnownTo(adapter', session, loop'.outgoing[i].seq, loop'.outgoing[i].from)
           \/ \E j \in DOMAIN loop.outgoing : loop'.outgoing[i] = loop.outgoing[j],
         \A i \in DOMAIN upstream' :
           \/ \E j \in DOMAIN upstream : upstream'[i] = upstream[j]
           \/ \E j \in DOMAIN loop.outgoing : upstream'[i] = loop.outgoing[j]
  PROVE  Own'
<1>1. IsAdapter(adapter) /\ session \in Nat
  BY Numbered DEF Good, Typed
<1>. PICK b : b = adapter'
  OBVIOUS
<1>2. ASSUME NEW i \in DOMAIN loop.outgoing, loop.outgoing[i].type = "event"
      PROVE  KnownTo(b, session, loop.outgoing[i].seq, loop.outgoing[i].from)
  BY <1>1, <1>2, Numbered, KnownEvolves DEF Own, MessageKnown
<1>3. ASSUME NEW i \in DOMAIN upstream, upstream[i].type = "event"
      PROVE  KnownTo(b, session, upstream[i].seq, upstream[i].from)
  BY <1>1, <1>3, Numbered, KnownEvolves DEF Own, MessageKnown
<1>4. ASSUME NEW id \in DOMAIN events
      PROVE  KnownTo(b, session, events[id].agentSeq, origin[id])
  BY <1>1, Numbered, KnownEvolves DEF Own
<1>5. \A i \in DOMAIN loop'.outgoing : MessageKnown(loop.outgoing[i])'
  <2>1. \A i \in DOMAIN loop'.outgoing :
          loop'.outgoing[i].type = "event" =>
            KnownTo(b, session, loop'.outgoing[i].seq, loop'.outgoing[i].from)
    BY <1>2
  <2>. QED
    BY <2>1 DEF MessageKnown, KnownTo
<1>6. \A i \in DOMAIN upstream' : MessageKnown(upstream[i])'
  <2>1. \A i \in DOMAIN upstream' :
          upstream'[i].type = "event" =>
            KnownTo(b, session, upstream'[i].seq, upstream'[i].from)
    BY <1>2, <1>3
  <2>. QED
    BY <2>1 DEF MessageKnown, KnownTo
<1>7. \A id \in DOMAIN events' :
        KnownTo(adapter, session, events[id].agentSeq, origin[id])'
  BY <1>4 DEF KnownTo
<1>8. OwnAnswers'
  BY DEF Own, OwnAnswers
<1>. QED
  BY <1>5, <1>6, <1>7, <1>8 DEF Own

LEMMA PollOwn == ASSUME Good, Own, PollAdapter PROVE Own'
<1>1. /\ session' = session /\ commands' = commands /\ events' = events
      /\ origin' = origin /\ answers' = answers /\ upstream' = upstream
  BY DEF PollAdapter, core, history
<1>2. IsAdapter(adapter) /\ session \in Nat \ {0}
  BY Numbered DEF Good, Typed
<1>3. PICK polled :
           /\ Evolves(adapter, polled) /\ Evolves(polled, adapter')
           /\ loop' = [at |-> "select", outgoing |-> EventMessages(polled)]
  BY <1>2, PollEffect
<1>4. IsAdapter(polled)
  BY <1>3 DEF Evolves
<1>5. Evolves(adapter, adapter')
  BY <1>2, <1>3, EvolvesOn
<1>6. ASSUME NEW i \in DOMAIN loop'.outgoing
      PROVE  KnownTo(adapter', session, loop'.outgoing[i].seq,
                     loop'.outgoing[i].from)
  <2>. PICK m : m = EventMessages(polled)[i]
    OBVIOUS
  <2>1. /\ i \in DOMAIN polled.out /\ m.seq = polled.out[i].seq
        /\ m.from = [session |-> session, screen |-> ScreenOf(polled, polled.out[i])]
    BY <1>3, <1>4, MessagesOf
  <2>2. polled.out[i].seq \in Nat
    <3>. PICK o \in Seq(Told) : o = polled.out
      BY <1>4 DEF IsAdapter
    <3>1. o[i] \in Told
      BY <2>1
    <3>. QED
      BY <3>1 DEF Told
  <2>3. KnownTo(polled, session, m.seq, m.from)
    BY <1>2, <1>4, <2>1, AnnouncedKnown
  <2>4. KnownTo(adapter', session, m.seq, m.from)
    BY <1>2, <1>3, <1>4, <2>1, <2>2, <2>3, KnownEvolves
  <2>. QED
    BY <1>3, <2>4
<1>7. /\ \A i \in DOMAIN commands' :
           \/ commands'[i].type # "respond"
           \/ commands'[i].seq = events[commands'[i].id].agentSeq
      /\ \A i \in DOMAIN upstream' :
           \E j \in DOMAIN upstream : upstream'[i] = upstream[j]
  BY <1>1 DEF Own
<1>. QED
  BY <1>1, <1>5, <1>6, <1>7, OwnKept

LEMMA SendOwn == ASSUME Good, Own, SendToCore PROVE Own'
<1>1. /\ session' = session /\ commands' = commands /\ events' = events
      /\ origin' = origin /\ answers' = answers /\ adapter' = adapter
      /\ loop.outgoing # <<>>
      /\ upstream' = Append(upstream, Head(loop.outgoing))
      /\ loop' = [loop EXCEPT !.outgoing = Tail(loop.outgoing)]
  BY DEF SendToCore, core, history, agentSide
<1>. PICK F : loop \in LoopFrom(F) /\ upstream \in Seq(MessagesFrom(F))
  BY DEF Good, Typed
<1>. PICK o \in Seq(MessagesFrom(F)) : o = loop.outgoing /\ o # <<>>
  BY <1>1 DEF LoopFrom
<1>2. /\ \A i \in DOMAIN Tail(o) : \E j \in DOMAIN o : Tail(o)[i] = o[j]
      /\ \E j \in DOMAIN o : Head(o) = o[j]
  BY TailElements
<1>3. loop'.outgoing = Tail(o)
  BY <1>1 DEF LoopFrom
<1>4. \A i \in DOMAIN upstream' :
        upstream'[i] = Head(o) \/ \E j \in DOMAIN upstream : upstream'[i] = upstream[j]
  BY <1>1, AppendElements
<1>5. /\ \A i \in DOMAIN upstream' :
           \/ \E j \in DOMAIN upstream : upstream'[i] = upstream[j]
           \/ \E j \in DOMAIN loop.outgoing : upstream'[i] = loop.outgoing[j]
      /\ \A i \in DOMAIN loop'.outgoing :
           \E j \in DOMAIN loop.outgoing : loop'.outgoing[i] = loop.outgoing[j]
  BY <1>2, <1>3, <1>4
<1>6. \A i \in DOMAIN commands' :
           \/ commands'[i].type # "respond"
           \/ commands'[i].seq = events[commands'[i].id].agentSeq
  BY <1>1 DEF Own
<1>. QED
  BY <1>1, <1>5, <1>6, OwnKept

(* Steps that leave the channel to the core and what is to be sent alone.  *)
LEMMA RestOwn ==
  ASSUME Good, Own, session' = session, events' = events, origin' = origin,
         answers' = answers, upstream' = upstream,
         adapter' = adapter \/ Evolves(adapter, adapter'),
         loop'.outgoing = loop.outgoing,
         \A i \in DOMAIN commands' :
           \/ commands'[i].type # "respond"
           \/ commands'[i].seq = events[commands'[i].id].agentSeq
  PROVE  Own'
<1>1. /\ \A i \in DOMAIN upstream' :
           \E j \in DOMAIN upstream : upstream'[i] = upstream[j]
      /\ \A i \in DOMAIN loop'.outgoing :
           \E j \in DOMAIN loop.outgoing : loop'.outgoing[i] = loop.outgoing[j]
  OBVIOUS
<1>. QED
  BY <1>1, OwnKept

LEMMA QuietOwn ==
  ASSUME Good, Own, SelectTimeout \/ AgentMoves \/ UNCHANGED daemon
  PROVE  Own'
<1>1. /\ session' = session /\ commands' = commands /\ events' = events
      /\ origin' = origin /\ answers' = answers /\ upstream' = upstream
  BY DEF SelectTimeout, AgentMoves, daemon, core, history
<1>2. loop'.outgoing = loop.outgoing
  <2>. PICK F : loop \in LoopFrom(F)
    BY DEF Good, Typed
  <2>1. loop' = loop \/ loop' = [loop EXCEPT !.at = "poll"]
    BY DEF SelectTimeout, AgentMoves, daemon
  <2>. QED
    BY <2>1 DEF LoopFrom
<1>3. adapter' = adapter \/ Evolves(adapter, adapter')
  <2>1. ASSUME AgentMoves PROVE adapter' = adapter \/ Evolves(adapter, adapter')
    BY <2>1, AgentStep
  <2>. QED
    BY <2>1 DEF SelectTimeout, daemon, agentSide
<1>4. \A i \in DOMAIN commands' :
           \/ commands'[i].type # "respond"
           \/ commands'[i].seq = events[commands'[i].id].agentSeq
  BY <1>1 DEF Own
<1>. QED
  BY <1>1, <1>2, <1>3, <1>4, RestOwn

LEMMA ClientOwn ==
  ASSUME Good, Own, ClientDecides \/ ClientPrompts PROVE Own'
<1>1. /\ session' = session /\ events' = events /\ adapter' = adapter
      /\ origin' = origin /\ answers' = answers /\ upstream' = upstream
      /\ loop' = loop
  BY DEF ClientDecides, ClientPrompts, RespondSent, RespondOverflow,
         ClientStartTask, agentSide, history
<1>. PICK S : commands \in Seq(S)
  BY DEF Good, Typed, LInv, CommandsTyped
<1>2. \A i \in DOMAIN commands : commands[i].type = "respond" =>
        commands[i].seq = events[commands[i].id].agentSeq
  BY DEF Own
<1>3. ASSUME NEW e, commands' = Append(commands, e),
             e.type # "respond" \/ e.seq = events[e.id].agentSeq
      PROVE  \A i \in DOMAIN commands' :
               \/ commands'[i].type # "respond"
               \/ commands'[i].seq = events[commands'[i].id].agentSeq
  <2>1. \A i \in DOMAIN commands' :
          commands'[i] = e \/ \E j \in DOMAIN commands : commands'[i] = commands[j]
    BY <1>3, AppendElements
  <2>. QED
    BY <1>2, <1>3, <2>1
<1>4. \A i \in DOMAIN commands' :
           \/ commands'[i].type # "respond"
           \/ commands'[i].seq = events[commands'[i].id].agentSeq
  <2>1. CASE ClientPrompts
    <3>1. commands' = commands \/ commands' = Append(commands, StartTask)
      BY <2>1 DEF ClientPrompts, ClientStartTask
    <3>2. StartTask.type # "respond"
      BY DEF StartTask
    <3>. QED
      BY <1>2, <1>3, <3>1, <3>2
  <2>2. CASE ClientDecides
    <3>1. PICK c \in Clients, id \in Ids(queue), d \in Decisions :
            RespondSent(c, id, d) \/ RespondOverflow(c, id, d)
      BY <2>2 DEF ClientDecides
    <3>2. PICK m : m = RespondCommand(id, d)
      OBVIOUS
    <3>3. m.seq = events[m.id].agentSeq
      BY <3>2 DEF RespondCommand
    <3>4. commands' = commands \/ commands' = Append(commands, m)
      BY <3>1, <3>2 DEF RespondSent, RespondOverflow
    <3>. QED
      BY <1>2, <1>3, <3>3, <3>4
  <2>. QED
    BY <2>1, <2>2
<1>. QED
  BY <1>1, <1>4, RestOwn

LEMMA HearOwn == ASSUME Good, Own, CoreOutcome PROVE Own'
<1>1. /\ session' = session /\ events' = events /\ adapter' = adapter
      /\ origin' = origin /\ answers' = answers /\ commands' = commands
      /\ loop' = loop /\ upstream # <<>> /\ upstream' = Tail(upstream)
  BY DEF CoreOutcome, Delivered, DeliveryFailed, agentSide, history
<1>. PICK F : upstream \in Seq(MessagesFrom(F))
  BY DEF Good, Typed
<1>2. \A i \in DOMAIN upstream' : \E j \in DOMAIN upstream : upstream'[i] = upstream[j]
  BY <1>1, TailElements
<1>3. \A i \in DOMAIN commands' :
           \/ commands'[i].type # "respond"
           \/ commands'[i].seq = events[commands'[i].id].agentSeq
  BY <1>1 DEF Own
<1>4. \A i \in DOMAIN loop'.outgoing :
        \E j \in DOMAIN loop.outgoing : loop'.outgoing[i] = loop.outgoing[j]
  BY <1>1
<1>. QED
  BY <1>1, <1>2, <1>3, <1>4, OwnKept

LEMMA Stored ==
  ASSUME NEW es \in Seq(Event), NEW e \in Event
  PROVE  /\ Len(Append(es, e)) = Len(es) + 1
         /\ DOMAIN Append(es, e) = 1..(Len(es) + 1)
         /\ Append(es, e)[Len(es) + 1] = e /\ DOMAIN es = 1..Len(es)
         /\ \A id \in 1..Len(es) : Append(es, e)[id] = es[id]
<1>. PICK S : S = Event
  OBVIOUS
<1>1. es \in Seq(S) /\ e \in S
  OBVIOUS
<1>. QED
  BY <1>1, AppendElements

(* An event is stored under the number the agent gave it.                  *)
LEMMA EventOwn == ASSUME Good, Own, CoreEvent PROVE Own'
<1>1. /\ session' = session /\ adapter' = adapter /\ answers' = answers
      /\ loop' = loop /\ upstream # <<>> /\ upstream' = Tail(upstream)
      /\ Head(upstream).type = "event"
      /\ origin' = Append(origin, Head(upstream).from)
  BY DEF CoreEvent, agentSide
<1>2. /\ commands' = commands /\ events \in Seq(Event)
      /\ Len(queue) = Len(events) /\ Len(queue) \in Nat
      /\ Ids(queue) = 1..Len(queue)
  BY EventEffect DEF Good
<1>. PICK event \in Event :
       events' = Append(events, event) /\ event.agentSeq = Head(upstream).seq
  BY EventEffect DEF Good
<1>. PICK F : upstream \in Seq(MessagesFrom(F))
  BY DEF Good, Typed
<1>. PICK S : origin \in Seq(S)
  BY DEF Own
<1>. PICK from : from = Head(upstream).from
  OBVIOUS
<1>. PICK n \in Nat : n = Len(events) /\ n = Len(origin)
  BY <1>2 DEF Own
<1>3. /\ \A i \in DOMAIN upstream' : \E j \in DOMAIN upstream : upstream'[i] = upstream[j]
      /\ 1 \in DOMAIN upstream /\ Head(upstream) = upstream[1]
  BY <1>1, TailElements
<1>4. KnownTo(adapter, session, event.agentSeq, from)
  BY <1>1, <1>3 DEF Own, MessageKnown
<1>. PICK es : es = Append(events, event)
  OBVIOUS
<1>14. /\ Len(es) = Len(events) + 1 /\ DOMAIN es = 1..(Len(events) + 1)
       /\ es[Len(events) + 1] = event /\ DOMAIN events = 1..Len(events)
       /\ \A id \in 1..Len(events) : es[id] = events[id]
  BY <1>2, Stored
<1>15. events' = es
  OBVIOUS
<1>5. /\ Len(events') = n + 1 /\ DOMAIN events' = 1..(n + 1)
      /\ events'[n + 1] = event /\ DOMAIN events = 1..n
      /\ \A id \in 1..n : events'[id] = events[id]
  BY <1>14, <1>15
<1>6. /\ Len(origin') = n + 1 /\ origin'[n + 1] = from
      /\ \A id \in 1..n : origin'[id] = origin[id]
      /\ origin' \in Seq(S \cup {from})
  BY <1>1, AppendElements
<1>7. \A id \in DOMAIN events' :
        KnownTo(adapter, session, events'[id].agentSeq, origin'[id])
  <2>1. \A id \in 1..(n + 1) : id \in 1..n \/ id = n + 1
    OBVIOUS
  <2>. QED
    BY <1>4, <1>5, <1>6, <2>1 DEF Own
<1>8. \A i \in DOMAIN commands' : commands'[i].type = "respond" =>
        commands'[i].seq = events'[commands'[i].id].agentSeq
  BY <1>2, <1>5 DEF Own, Good, AllTold, AskTold
<1>9. OwnAnswers'
  <2>1. \A i \in DOMAIN answers : answers[i].id \in 1..n
    BY <1>2 DEF Good, AllTold
  <2>. QED
    BY <1>1, <1>6, <2>1 DEF Own, OwnAnswers
<1>10. \A i \in DOMAIN upstream' : MessageKnown(upstream[i])'
  <2>1. \A i \in DOMAIN upstream' : MessageKnown(upstream'[i])
    BY <1>3 DEF Own
  <2>. QED
    BY <1>1, <2>1 DEF MessageKnown, KnownTo
<1>11. \A i \in DOMAIN loop'.outgoing : MessageKnown(loop.outgoing[i])'
  BY <1>1 DEF Own, MessageKnown, KnownTo
<1>12. \A id \in DOMAIN events' :
         KnownTo(adapter, session, events[id].agentSeq, origin[id])'
  BY <1>1, <1>7 DEF KnownTo
<1>13. /\ session' \in 1..MaxSessions /\ Len(origin') = Len(events')
       /\ \A i \in DOMAIN answers' : answers'[i].session \in 1..session'
  BY <1>1, <1>5, <1>6 DEF Own
<1>. QED
  BY <1>6, <1>8, <1>9, <1>10, <1>11, <1>12, <1>13 DEF Own

(* An answer is typed into the dialog that is pending, and the number the  *)
(* command carries is that of the event it answers.                        *)
LEMMA DeliverOwn == ASSUME Good, Own, DeliverDecision PROVE Own'
<1>1. /\ session' = session /\ events' = events /\ origin' = origin
      /\ upstream' = upstream /\ commands # <<>> /\ commands' = Tail(commands)
      /\ Head(commands).type = "respond"
  BY DEF DeliverDecision, TakeCommand
<1>. PICK S : commands \in Seq(S)
  BY DEF Good, Typed, LInv, CommandsTyped
<1>. PICK T : answers \in Seq(T)
  BY DEF Good, Typed
<1>. PICK command \in S : command = Head(commands)
  BY <1>1, HeadTailProperties
<1>2. /\ \A i \in DOMAIN commands' : \E j \in DOMAIN commands : commands'[i] = commands[j]
      /\ 1 \in DOMAIN commands /\ command = commands[1]
  BY <1>1, TailElements
<1>3. /\ command.seq = events[command.id].agentSeq
      /\ command.id \in Ids(queue)
  BY <1>1, <1>2 DEF Own, Good, AllTold, AskTold
<1>4. IsAdapter(adapter)
  BY DEF Good, Typed
<1>5. PICK ok \in BOOLEAN :
        /\ loop' = [at |-> "poll",
                    outgoing |-> <<[type |-> "outcome", id |-> command.id,
                                    decision |-> command.decision,
                                    delivered |-> ok]>>]
        /\ Evolves(adapter, adapter')
        /\ ~ok => answers' = answers
        /\ ok => /\ answers' = Append(answers,
                                 [id |-> command.id,
                                  decision |-> command.decision,
                                  session |-> session,
                                  screen |-> adapter'.typed.into])
                 /\ adapter.pending # None
                 /\ adapter.pending.seq = command.seq
                 /\ Agent!SameRequest(adapter.pending.screen,
                                      adapter'.typed.into)
  BY <1>4, DeliverEffect
<1>6. \A i \in DOMAIN loop'.outgoing : loop'.outgoing[i].type = "outcome"
  BY <1>5
<1>7. \A i \in DOMAIN commands' : commands'[i].type = "respond" =>
        commands'[i].seq = events[commands'[i].id].agentSeq
  BY <1>2 DEF Own
<1>8. CASE ~ok
  BY <1>1, <1>5, <1>6, <1>7, <1>8, OwnKept
<1>9. CASE ok
  <2>. PICK e : e = [id |-> command.id, decision |-> command.decision,
                     session |-> session, screen |-> adapter'.typed.into]
    OBVIOUS
  <2>1. /\ e.id = command.id /\ e.session = session
        /\ e.screen = adapter'.typed.into
    OBVIOUS
  <2>2. \A i \in DOMAIN answers' :
          answers'[i] = e \/ \E j \in DOMAIN answers : answers'[i] = answers[j]
    <3>1. answers' = Append(answers, e)
      BY <1>5, <1>9
    <3>. QED
      BY <3>1, AppendElements
  <2>3. KnownTo(adapter, session, events[e.id].agentSeq, origin[e.id])
    BY <1>3, <2>1, Numbered DEF Own
  <2>4. e.session = origin[e.id].session
          => Agent!SameRequest(origin[e.id].screen, e.screen)
    BY <1>3, <1>5, <1>9, <2>1, <2>3 DEF KnownTo, Agent!SameRequest
  <2>5. OwnAnswers'
    BY <1>1, <2>2, <2>4 DEF Own, OwnAnswers
  <2>6. \A i \in DOMAIN answers' : answers'[i].session \in 1..session'
    BY <1>1, <2>1, <2>2, Numbered DEF Own
  <2>. PICK b : b = adapter'
    OBVIOUS
  <2>7. \A id \in DOMAIN events :
          KnownTo(b, session, events[id].agentSeq, origin[id])
    BY <1>4, <1>5, Numbered, KnownEvolves DEF Own
  <2>8. \A i \in DOMAIN upstream : upstream[i].type = "event" =>
          KnownTo(b, session, upstream[i].seq, upstream[i].from)
    BY <1>4, <1>5, Numbered, KnownEvolves DEF Own, MessageKnown
  <2>9. /\ \A id \in DOMAIN events' :
             KnownTo(adapter, session, events[id].agentSeq, origin[id])'
        /\ \A i \in DOMAIN upstream' : MessageKnown(upstream[i])'
        /\ \A i \in DOMAIN loop'.outgoing : MessageKnown(loop.outgoing[i])'
    BY <1>1, <1>6, <2>7, <2>8 DEF MessageKnown, KnownTo
  <2>. QED
    BY <1>1, <1>7, <2>5, <2>6, <2>9 DEF Own
<1>. QED
  BY <1>8, <1>9

(* A new process: what was announced before is of an earlier one.          *)
LEMMA PromptOwn == ASSUME Good, Own, DeliverPrompt PROVE Own'
<1>1. /\ events' = events /\ origin' = origin /\ answers' = answers
      /\ upstream' = upstream /\ commands # <<>> /\ commands' = Tail(commands)
      /\ loop' = [loop EXCEPT !.at = "poll"]
      /\ \/ session' = session /\ adapter' = adapter
         \/ /\ session < MaxSessions /\ session' = session + 1
            /\ adapter' = Agent!NewAdapter(TRUE)
  BY DEF DeliverPrompt, TakeCommand, history
<1>. PICK S : commands \in Seq(S)
  BY DEF Good, Typed, LInv, CommandsTyped
<1>2. \A i \in DOMAIN commands' : \E j \in DOMAIN commands : commands'[i] = commands[j]
  BY <1>1, TailElements
<1>3. \A i \in DOMAIN commands' : commands'[i].type = "respond" =>
        commands'[i].seq = events[commands'[i].id].agentSeq
  BY <1>2 DEF Own
<1>4. loop'.outgoing = loop.outgoing
  <2>. PICK F : loop \in LoopFrom(F)
    BY DEF Good, Typed
  <2>. QED
    BY <1>1 DEF LoopFrom
<1>5. CASE session' = session /\ adapter' = adapter
  BY <1>1, <1>3, <1>4, <1>5, RestOwn
<1>6. CASE session < MaxSessions /\ session' = session + 1
  <2>1. session \in Nat \ {0} /\ MaxSessions \in Nat
    BY DaemonAssumption, Numbered
  <2>. PICK n \in Nat : n = session'
    BY <1>6, <2>1
  <2>2. n \in 1..MaxSessions /\ \A m \in 1..session : m \in 1..n /\ m # n
    BY <1>6, <2>1
  <2>. PICK b : b = adapter'
    OBVIOUS
  <2>3. \A seq, from : KnownTo(adapter, session, seq, from) => KnownTo(b, n, seq, from)
    BY <2>2 DEF KnownTo
  <2>4. /\ \A id \in DOMAIN events :
             KnownTo(b, n, events[id].agentSeq, origin[id])
        /\ \A i \in DOMAIN upstream : upstream[i].type = "event" =>
             KnownTo(b, n, upstream[i].seq, upstream[i].from)
        /\ \A i \in DOMAIN loop.outgoing : loop.outgoing[i].type = "event" =>
             KnownTo(b, n, loop.outgoing[i].seq, loop.outgoing[i].from)
    BY <2>3 DEF Own, MessageKnown
  <2>5. /\ \A id \in DOMAIN events' :
             KnownTo(adapter, session, events[id].agentSeq, origin[id])'
        /\ \A i \in DOMAIN upstream' : MessageKnown(upstream[i])'
        /\ \A i \in DOMAIN loop'.outgoing : MessageKnown(loop.outgoing[i])'
    BY <1>1, <1>4, <2>4 DEF MessageKnown, KnownTo
  <2>6. OwnAnswers'
    BY <1>1 DEF Own, OwnAnswers
  <2>7. \A i \in DOMAIN answers' : answers'[i].session \in 1..session'
    BY <1>1, <2>2 DEF Own
  <2>8. session' \in 1..MaxSessions
    BY <2>2
  <2>. QED
    BY <1>1, <1>3, <2>5, <2>6, <2>7, <2>8 DEF Own
<1>. QED
  BY <1>1, <1>5, <1>6

LEMMA OwnStep == ASSUME Good, Own, [DaemonNext]_daemon PROVE Own'
BY PollOwn, SendOwn, DeliverOwn, PromptOwn, EventOwn, HearOwn, ClientOwn, QuietOwn
   DEF DaemonNext, LoopNext, CoreNext

LEMMA OwnStarts == DaemonInit => Own
<1>. SUFFICES ASSUME DaemonInit PROVE Own
  OBVIOUS
<1>1. /\ upstream = <<>> /\ answers = <<>> /\ origin = <<>> /\ session = 1
      /\ loop = [at |-> "poll", outgoing |-> <<>>]
      /\ events = <<>> /\ commands = <<>>
  BY DEF DaemonInit, Init
<1>2. /\ DOMAIN commands = {} /\ DOMAIN upstream = {} /\ DOMAIN events = {}
      /\ DOMAIN answers = {} /\ DOMAIN loop.outgoing = {}
      /\ Len(origin) = Len(events)
  BY <1>1
<1>3. origin \in Seq({}) /\ session \in 1..MaxSessions
  BY <1>1, EmptySeq, DaemonAssumption
<1>. QED
  BY <1>2, <1>3 DEF Own, OwnAnswers

LEMMA OwnInvariant == DaemonSpec => []Own
<1>1. Good /\ Own /\ [DaemonNext]_daemon => Own'
  BY OwnStep
<1>. QED
  BY <1>1, OwnStarts, DaemonInvariant, PTL DEF DaemonSpec

(* OwnDialogOfAProcess: however many agent processes run one after the     *)
(* other, an answer typed while the process runs that asked is typed into  *)
(* the dialog it was asked for.  (An answer that comes when another        *)
(* process runs may not be: each counts its events anew, main.rs:506.)     *)
THEOREM OwnDialogOfAProcess == DaemonSpec => []OwnAnswers
<1>1. Own => OwnAnswers
  BY DEF Own
<1>. QED
  BY <1>1, OwnInvariant, PTL

-----------------------------------------------------------------------------
(* What the adapter tells of the request it has pending.  Opens: the last  *)
(* event of w that outdates a request is the announcement of the one that  *)
(* was given number n.                                                     *)

Opening == {"approval_required", "input_required"}
Murmurs == {"started", "progress"}

Murmured(w) == \A i \in DOMAIN w : w[i].kind \in Murmurs

Opens(w, n) ==
  \E i \in DOMAIN w :
    /\ w[i].kind \in Opening /\ w[i].seq = n
    /\ \A j \in DOMAIN w : j > i => w[j].kind \in Murmurs

Buffers(a) == \A i \in DOMAIN a.buffer : a.buffer[i].kind = "progress"

(* Stage(a, b): b is where a poll that began with a may have come to.      *)
Stage(a, b) ==
  /\ IsAdapter(b) /\ Buffers(b)
  /\ b.pending # None =>
       \/ /\ a.pending # None /\ b.pending.seq = a.pending.seq
          /\ Murmured(b.out)
       \/ Opens(b.out, b.pending.seq)

LEMMA StageKept ==
  ASSUME NEW a, NEW b, Stage(a, b), NEW c, Kept(b, c)
  PROVE  Stage(a, c)
<1>1. IsAdapter(c)
  BY KeptEvolves DEF Stage, Evolves
<1>. QED
  BY <1>1 DEF Stage, Kept, Buffers

LEMMA Emitted ==
  ASSUME NEW b, IsAdapter(b), NEW kind \in AgentKinds
  PROVE  LET c == Agent!Emit(b, kind) IN
         /\ IsAdapter(c) /\ c.buffer = b.buffer /\ c.pending = b.pending
         /\ c.seq = b.seq + 1
         /\ \E n \in Nat :
              /\ DOMAIN b.out = 1..n /\ DOMAIN c.out = 1..(n + 1)
              /\ c.out[n + 1] = [kind |-> kind, seq |-> c.seq]
              /\ \A i \in 1..n : c.out[i] = b.out[i]
<1>. PICK c : c = Agent!Emit(b, kind)
  OBVIOUS
<1>1. IsAdapter(c) /\ c.pending = b.pending /\ c.seq = b.seq + 1
  BY EmitEvolves DEF Evolves
<1>. PICK e : e = [kind |-> kind, seq |-> b.seq + 1]
  OBVIOUS
<1>2. c = [b EXCEPT !.seq = b.seq + 1, !.out = Append(b.out, e)]
  BY DEF Agent!Emit, IsAdapter, Fields
<1>3. c.out = Append(b.out, e) /\ c.buffer = b.buffer
  BY <1>2 DEF IsAdapter, Fields
<1>4. PICK n \in Nat : n = Len(b.out) /\ DOMAIN b.out = 1..n
  BY LenProperties DEF IsAdapter
<1>5. /\ DOMAIN c.out = 1..(n + 1) /\ c.out[n + 1] = e
      /\ \A i \in 1..n : c.out[i] = b.out[i]
  <2>. PICK w \in Seq(Told) : w = b.out
    BY DEF IsAdapter
  <2>1. /\ DOMAIN Append(w, e) = 1..(n + 1) /\ Append(w, e)[n + 1] = e
        /\ \A i \in 1..n : Append(w, e)[i] = w[i]
    BY <1>4, AppendElements
  <2>. QED
    BY <1>3, <2>1
<1>. QED
  BY <1>1, <1>3, <1>4, <1>5

LEMMA StageEmit ==
  ASSUME NEW a, NEW b, Stage(a, b), NEW kind \in AgentKinds,
         kind \in Murmurs \/ b.pending = None
  PROVE  Stage(a, Agent!Emit(b, kind))
<1>. PICK c : c = Agent!Emit(b, kind)
  OBVIOUS
<1>1. IsAdapter(b)
  BY DEF Stage
<1>2. /\ IsAdapter(c) /\ c.buffer = b.buffer /\ c.pending = b.pending
      /\ c.seq = b.seq + 1
  BY <1>1, Emitted
<1>3. PICK n \in Nat :
           /\ DOMAIN b.out = 1..n /\ DOMAIN c.out = 1..(n + 1)
           /\ c.out[n + 1] = [kind |-> kind, seq |-> c.seq]
           /\ \A i \in 1..n : c.out[i] = b.out[i]
  BY <1>1, Emitted
<1>4. c.out[n + 1].kind = kind /\ \A i \in 1..(n + 1) : i \in 1..n \/ i = n + 1
  BY <1>3
<1>5. ASSUME c.pending # None, Murmured(b.out) PROVE Murmured(c.out)
  BY <1>2, <1>3, <1>4, <1>5 DEF Murmured
<1>6. ASSUME c.pending # None, Opens(b.out, c.pending.seq)
      PROVE  Opens(c.out, c.pending.seq)
  <2>1. PICK i \in 1..n :
          /\ b.out[i].kind \in Opening /\ b.out[i].seq = c.pending.seq
          /\ \A j \in 1..n : j > i => b.out[j].kind \in Murmurs
    BY <1>3, <1>6 DEF Opens
  <2>2. /\ i \in 1..(n + 1)
        /\ c.out[i].kind \in Opening /\ c.out[i].seq = c.pending.seq
        /\ \A j \in 1..(n + 1) : j > i => c.out[j].kind \in Murmurs
    <3>1. c.out[n + 1].kind \in Murmurs
      BY <1>2, <1>4, <1>6
    <3>2. \A j \in 1..n : j > i => c.out[j].kind \in Murmurs
      BY <1>3, <2>1
    <3>. QED
      BY <1>3, <1>4, <2>1, <3>1, <3>2
  <2>. QED
    BY <1>3, <2>2 DEF Opens
<1>. QED
  BY <1>2, <1>5, <1>6 DEF Stage, Buffers

LEMMA StageExpire ==
  ASSUME NEW a, NEW b, Stage(a, b)
  PROVE  LET c == Agent!ExpirePending(b) IN
         Stage(a, c) /\ c.pending = None /\ c.buffer = b.buffer
<1>. PICK c : c = Agent!ExpirePending(b)
  OBVIOUS
<1>1. IsAdapter(b)
  BY DEF Stage
<1>2. IsAdapter(c)
  BY <1>1, ExpireEvolves DEF Evolves
<1>3. c.pending = None /\ c.buffer = b.buffer
  BY <1>1 DEF Agent!ExpirePending, IsAdapter, Fields
<1>. QED
  BY <1>2, <1>3 DEF Stage, Buffers

LEMMA StageOpen ==
  ASSUME NEW a, NEW b, Stage(a, b), NEW s, Agent!IsBlocking(s)
  PROVE  Stage(a, Agent!OpenRequest(b, s))
<1>. PICK r : r = Agent!OpenRequest(b, s)
  OBVIOUS
<1>0. IsAdapter(b) /\ IsAdapter(r)
  BY OpenEvolves DEF Stage, Evolves
<1>1. CASE b.pending # None /\ Agent!SameRequest(b.pending.screen, s)
  <2>1. PICK p : p = [b.pending EXCEPT !.screen = s]
    OBVIOUS
  <2>2. PICK c : c = [b EXCEPT !.pending = p]
    OBVIOUS
  <2>3. p.seq = b.pending.seq /\ DOMAIN p = DOMAIN b.pending
    BY <1>0, <1>1, <2>1 DEF IsAdapter, RequestTyped
  <2>4. r = Agent!At(c, "Blocked")
    BY <1>1, <2>1, <2>2 DEF Agent!OpenRequest
  <2>5. r = [b EXCEPT !.pending = p, !.life = "Blocked", !.work = None]
    BY <1>0, <2>2, <2>4 DEF Agent!At, IsAdapter, Fields
  <2>6. r.pending = p /\ r.out = b.out /\ r.buffer = b.buffer
    BY <1>0, <2>5 DEF IsAdapter, Fields
  <2>. QED
    BY <1>0, <1>1, <2>3, <2>6 DEF Stage, Buffers
<1>2. CASE ~(b.pending # None /\ Agent!SameRequest(b.pending.screen, s))
           /\ Agent!InGrace(b, s)
  BY <1>2 DEF Agent!OpenRequest
<1>3. CASE ~(b.pending # None /\ Agent!SameRequest(b.pending.screen, s))
           /\ ~Agent!InGrace(b, s)
  <2>1. PICK c : c = [b EXCEPT !.consumed = None]
    OBVIOUS
  <2>2. Stage(a, c)
    BY <1>0, <2>1, FieldKept, StageKept
  <2>3. PICK d : d = Agent!ExpirePending(c)
    OBVIOUS
  <2>4. Stage(a, d) /\ d.pending = None
    BY <2>2, <2>3, StageExpire
  <2>5. PICK e : e = Agent!At(d, "Blocked")
    OBVIOUS
  <2>6. Kept(d, e)
    BY <2>4, <2>5, AtKept DEF Stage
  <2>7. Stage(a, e) /\ IsAdapter(e)
    BY <2>4, <2>6, StageKept DEF Stage
  <2>8. PICK kind \in AgentKinds : kind = Agent!RequestKind(s) /\ kind \in Opening
    BY DEF AgentKinds, Agent!RequestKind, Opening
  <2>9. PICK f : f = Agent!Emit(e, kind)
    OBVIOUS
  <2>10. IsAdapter(f) /\ f.buffer = e.buffer
    BY <2>7, <2>9, Emitted
  <2>11. PICK n \in Nat :
            /\ DOMAIN e.out = 1..n /\ DOMAIN f.out = 1..(n + 1)
            /\ f.out[n + 1] = [kind |-> kind, seq |-> f.seq]
            /\ \A i \in 1..n : f.out[i] = e.out[i]
    BY <2>7, <2>9, Emitted
  <2>12. PICK p : p = [generation |-> f.generation + 1, seq |-> f.seq, screen |-> s]
    OBVIOUS
  <2>13. r = [f EXCEPT !.generation = f.generation + 1, !.pending = p]
    <3>1. r = [f EXCEPT !.generation = @ + 1,
                        !.pending = [generation |-> f.generation + 1,
                                     seq |-> f.seq, screen |-> s]]
      BY <1>3, <2>1, <2>3, <2>5, <2>8, <2>9 DEF Agent!OpenRequest
    <3>. QED
      BY <2>12, <3>1
  <2>14. r.out = f.out /\ r.buffer = f.buffer /\ r.pending.seq = f.seq
    BY <2>10, <2>12, <2>13 DEF IsAdapter, Fields
  <2>15. Opens(r.out, r.pending.seq)
    <3>1. n + 1 \in DOMAIN r.out /\ \A j \in DOMAIN r.out : ~(j > n + 1)
      BY <2>11, <2>14
    <3>2. r.out[n + 1].kind \in Opening /\ r.out[n + 1].seq = r.pending.seq
      BY <2>8, <2>11, <2>14
    <3>. QED
      BY <3>1, <3>2 DEF Opens
  <2>. QED
    BY <1>0, <2>7, <2>10, <2>14, <2>15 DEF Stage, Buffers
<1>. QED
  BY <1>1, <1>2, <1>3

LEMMA StageFields ==
  ASSUME NEW a, NEW b, Stage(a, b), NEW x, NEW y
  PROVE  /\ Stage(a, [b EXCEPT !.writeIn = x])
         /\ Stage(a, [b EXCEPT !.prompted = x])
         /\ Stage(a, [b EXCEPT !.screen = x])
         /\ Stage(a, [b EXCEPT !.current = x])
         /\ Stage(a, [b EXCEPT !.consumed = x, !.typed = y])
         /\ Stage(a, Agent!At(b, x)) /\ Stage(a, Agent!Busy(b, x))
<1>1. IsAdapter(b)
  BY DEF Stage
<1>. QED
  BY <1>1, FieldKept, AtKept, StageKept

LEMMA StageWriteIn ==
  ASSUME NEW a, NEW b, Stage(a, b), NEW s, NEW sent
  PROVE  /\ Stage(a, Agent!CompleteWriteIn(b, s, sent))
         /\ Stage(a, Agent!DropWriteIn(b, s))
         /\ Stage(a, Agent!ForgetLateWriteIn(b))
<1>. PICK c : c = [b EXCEPT !.writeIn = None]
  OBVIOUS
<1>1. Stage(a, c)
  BY StageFields
<1>. PICK d : d = [c EXCEPT !.consumed = [screen |-> s, over |-> FALSE,
                                          opens |-> FALSE],
                            !.typed = [what |-> "text", seq |-> 0, into |-> s]]
  OBVIOUS
<1>2. Stage(a, d)
  BY <1>1, StageFields
<1>3. Stage(a, Agent!At(c, "Exited")) /\ Stage(a, Agent!Busy(d, "write_in"))
  BY <1>1, <1>2, StageFields
<1>. QED
  BY <1>1, <1>3
     DEF Agent!CompleteWriteIn, Agent!DropWriteIn, Agent!ForgetLateWriteIn

LEMMA StageFinish ==
  ASSUME NEW a, NEW b, Stage(a, b), b.pending = None, NEW evidence
  PROVE  Stage(a, Agent!Finish(b, evidence))
<1>. PICK c : c = [b EXCEPT !.prompted = FALSE]
  OBVIOUS
<1>. PICK d : d = Agent!At(c, "Running")
  OBVIOUS
<1>1. Stage(a, c) /\ Stage(a, d)
  BY StageFields
<1>2. d.pending = None
  BY DEF Stage, IsAdapter, Fields, Agent!At
<1>3. Stage(a, Agent!Emit(d, "task_completed"))
  BY <1>1, <1>2, StageEmit DEF AgentKinds
<1>. QED
  BY <1>1, <1>3 DEF Agent!Finish

LEMMA StageTransition ==
  ASSUME NEW a, NEW b, Stage(a, b), NEW s, NEW evidence, NEW sent
  PROVE  Stage(a, Agent!HandleTransition(b, s, evidence, sent))
<1>1. CASE Agent!IsBlocking(s)
  <2>1. Stage(a, Agent!OpenRequest(Agent!DropWriteIn(b, s), s))
    BY <1>1, StageWriteIn, StageOpen
  <2>. QED
    BY <1>1, <2>1, StageWriteIn DEF Agent!HandleTransition
<1>2. CASE ~Agent!IsBlocking(s)
  <2>1. PICK c : c = Agent!ExpirePending(b)
    OBVIOUS
  <2>2. PICK d : d = [c EXCEPT !.writeIn = None]
    OBVIOUS
  <2>3. PICK e : e = Agent!Busy(c, s.id)
    OBVIOUS
  <2>4. PICK f : f = Agent!At(d, "Exited")
    OBVIOUS
  <2>5. /\ Stage(a, c) /\ c.pending = None
        /\ Stage(a, d) /\ Stage(a, e) /\ Stage(a, f)
        /\ Stage(a, Agent!At(d, "Running"))
    BY <2>1, <2>2, <2>3, <2>4, StageExpire, StageFields
  <2>6. d.pending = None
    BY <2>2, <2>5 DEF Stage, IsAdapter, Fields
  <2>7. f.pending = None
    BY <2>4, <2>5, <2>6 DEF Stage, IsAdapter, Fields, Agent!At
  <2>8. /\ Stage(a, Agent!Emit(e, "progress"))
        /\ Stage(a, Agent!Emit(f, "command_failed"))
        /\ Stage(a, Agent!Finish(d, evidence))
    BY <2>5, <2>6, <2>7, StageEmit, StageFinish DEF AgentKinds, Murmurs
  <2>9. PICK r : r = Agent!HandleTransition(b, s, evidence, sent)
    OBVIOUS
  <2>10. r \in {c, d, Agent!Emit(e, "progress"), Agent!Finish(d, evidence),
                Agent!At(d, "Running"), Agent!Emit(f, "command_failed")}
    <3>1. r = CASE s.kind = "Working" ->
                     IF c.life = "Working" /\ c.work = s.id THEN c
                     ELSE Agent!Emit(e, "progress")
                [] s.kind = "Completed" -> Agent!Finish(d, evidence)
                [] s.kind = "FatalError" ->
                     IF c.life = "Exited" THEN d
                     ELSE Agent!Emit(f, "command_failed")
                [] s.kind = "IdlePrompt" ->
                     IF c.life = "Working" \/ c.prompted
                     THEN Agent!Finish(d, evidence)
                     ELSE Agent!At(d, "Running")
                [] OTHER -> c
      BY <1>2, <2>1, <2>2, <2>3, <2>4, <2>9 DEF Agent!HandleTransition
    <3>. QED
      BY <3>1
  <2>. QED
    BY <2>5, <2>8, <2>9, <2>10
<1>. QED
  BY <1>1, <1>2

(* A poll begins with what the calls in between left to be told.           *)
LEMMA StageBegin ==
  ASSUME NEW a, IsAdapter(a), Buffers(a)
  PROVE  Stage(a, Agent!Begin([a EXCEPT !.out = <<>>]))
<1>1. PICK o \in Seq(Told) : o = <<>> \o a.buffer
  BY EmptySeq, ConcatProperties DEF IsAdapter
<1>2. o = a.buffer
  BY <1>1 DEF IsAdapter
<1>3. PICK e \in Seq(Told) : e = <<>>
  BY EmptySeq
<1>4. PICK c : c = [a EXCEPT !.out = <<>>]
  OBVIOUS
<1>5. DOMAIN c = Fields /\ c.out = <<>> /\ c.buffer = a.buffer
      /\ c.seq = a.seq /\ c.pending = a.pending
  BY <1>4 DEF IsAdapter, Fields
<1>6. PICK b : b = [c EXCEPT !.out = o, !.buffer = e, !.typed = None]
  OBVIOUS
<1>7. DOMAIN b = Fields /\ b.out = a.buffer /\ b.buffer = e
      /\ b.seq = a.seq /\ b.pending = a.pending
  BY <1>2, <1>5, <1>6 DEF Fields
<1>8. IsAdapter(b)
  <2>1. Below(e, a.seq)
    BY <1>3 DEF Below
  <2>. QED
    BY <1>7, <2>1 DEF IsAdapter
<1>9. Stage(a, b)
  <2>1. Murmured(b.out)
    BY <1>7 DEF Buffers, Murmured, Murmurs
  <2>2. Buffers(b)
    BY <1>3, <1>7 DEF Buffers
  <2>. QED
    BY <1>7, <1>8, <2>1, <2>2 DEF Stage
<1>10. b = [c EXCEPT !.out = @ \o c.buffer, !.buffer = <<>>, !.typed = None]
  BY <1>1, <1>3, <1>5, <1>6 DEF Fields
<1>11. Stage(a, Agent!At(b, "Starting"))
  BY <1>9, StageFields
<1>12. Stage(a, Agent!Emit(Agent!At(b, "Starting"), "started"))
  BY <1>11, StageEmit DEF AgentKinds, Murmurs
<1>. QED
  BY <1>4, <1>9, <1>10, <1>12 DEF Agent!Begin

LEMMA StagePoll ==
  ASSUME IsAdapter(adapter), Buffers(adapter), NEW evidence, NEW sent,
         NEW b \in Agent!PollOutcomes(adapter, evidence, sent)
  PROVE  Stage(adapter, b)
<1>. DEFINE a == adapter
<1>1. PICK c : c = Agent!Begin([a EXCEPT !.out = <<>>])
  OBVIOUS
<1>2. PICK d : d = Agent!Look(c, evidence, sent)
  OBVIOUS
<1>3. PICK e : e = Agent!ForgetLateWriteIn(d)
  OBVIOUS
<1>4. PICK f : f = Agent!Resurface(e)
  OBVIOUS
<1>5. b = Agent!NoticeDeath(f)
  BY <1>1, <1>2, <1>3, <1>4 DEF Agent!PollOutcomes
<1>6. Stage(a, c)
  BY <1>1, StageBegin
<1>7. Stage(a, d)
  <2>1. PICK g : g = [c EXCEPT !.screen = terminal]
    OBVIOUS
  <2>2. PICK h : h = [g EXCEPT !.current = terminal]
    OBVIOUS
  <2>3. Stage(a, g) /\ Stage(a, h)
    BY <1>6, <2>1, <2>2, StageFields
  <2>4. Stage(a, Agent!HandleTransition(h, terminal, evidence, sent))
    BY <2>3, StageTransition
  <2>. QED
    BY <1>2, <1>6, <2>1, <2>2, <2>3, <2>4 DEF Agent!Look
<1>8. Stage(a, e)
  BY <1>3, <1>7, StageWriteIn
<1>9. Stage(a, f)
  BY <1>4, <1>8, StageOpen DEF Agent!Resurface
<1>10. CASE b # f
  <2>1. PICK g : g = Agent!At(f, "Exited")
    OBVIOUS
  <2>2. PICK h : h = Agent!ExpirePending(g)
    OBVIOUS
  <2>3. PICK k : k = [h EXCEPT !.writeIn = None]
    OBVIOUS
  <2>4. b = Agent!Emit(k, "adapter_error")
    BY <1>5, <1>10, <2>1, <2>2, <2>3 DEF Agent!NoticeDeath
  <2>5. Stage(a, g)
    BY <1>9, <2>1, StageFields
  <2>6. Stage(a, h) /\ h.pending = None
    BY <2>2, <2>5, StageExpire
  <2>7. Stage(a, k) /\ k.pending = None
    BY <2>3, <2>6, StageFields DEF Stage, IsAdapter, Fields
  <2>. QED
    BY <2>4, <2>7, StageEmit DEF AgentKinds
<1>. QED
  BY <1>9, <1>10

(* Between polls nothing is announced, and no request is opened.           *)
Rests(a, b) ==
  /\ IsAdapter(b) /\ Buffers(b)
  /\ b.pending # None => a.pending # None /\ b.pending.seq = a.pending.seq

LEMMA RestsKept ==
  ASSUME NEW a, NEW b, Rests(a, b), NEW c, Kept(b, c)
  PROVE  Rests(a, c)
<1>1. IsAdapter(c)
  BY KeptEvolves DEF Rests, Evolves
<1>. QED
  BY <1>1 DEF Rests, Kept, Buffers

LEMMA RestsQuiet ==
  ASSUME NEW a, IsAdapter(a), Buffers(a)
  PROVE  Rests(a, a) /\ Rests(a, Agent!Quiet(a))
<1>. PICK q : q = Agent!Quiet(a)
  OBVIOUS
<1>1. IsAdapter(q)
  BY QuietEvolves DEF Evolves
<1>2. q.pending = a.pending /\ q.buffer = a.buffer
  BY DEF Agent!Quiet, IsAdapter, Fields
<1>. QED
  BY <1>1, <1>2 DEF Rests, Buffers

LEMMA RestsExpire ==
  ASSUME NEW a, NEW b, Rests(a, b)
  PROVE  Rests(a, Agent!ExpirePending(b))
<1>. PICK c : c = Agent!ExpirePending(b)
  OBVIOUS
<1>1. IsAdapter(b)
  BY DEF Rests
<1>2. IsAdapter(c)
  BY <1>1, ExpireEvolves DEF Evolves
<1>3. c.pending = None /\ c.buffer = b.buffer
  BY <1>1 DEF Agent!ExpirePending, IsAdapter, Fields
<1>. QED
  BY <1>2, <1>3 DEF Rests, Buffers

(* Progress is left to be told by the next poll.                           *)
LEMMA RestsBuffer ==
  ASSUME NEW a, NEW c, Rests(a, c)
  PROVE  Rests(a, [c EXCEPT !.seq = @ + 1,
                            !.buffer = Append(@, [kind |-> "progress",
                                                  seq |-> c.seq + 1])])
<1>. PICK e : e = [kind |-> "progress", seq |-> c.seq + 1]
  OBVIOUS
<1>. PICK w \in Seq(Told) : w = c.buffer
  BY DEF Rests, IsAdapter
<1>. PICK d : d = [c EXCEPT !.seq = c.seq + 1, !.buffer = Append(w, e)]
  OBVIOUS
<1>1. d = [c EXCEPT !.seq = @ + 1,
                    !.buffer = Append(@, [kind |-> "progress",
                                          seq |-> c.seq + 1])]
  BY DEF Rests, IsAdapter, Fields
<1>2. IsAdapter(d)
  BY <1>1, BufferEvolves DEF Rests, Evolves, AgentKinds
<1>3. d.pending = c.pending /\ d.buffer = Append(w, e)
  BY DEF Rests, IsAdapter, Fields
<1>4. \A i \in DOMAIN Append(w, e) :
        Append(w, e)[i] = e \/ \E j \in DOMAIN w : Append(w, e)[i] = w[j]
  BY AppendElements
<1>5. Buffers(d)
  BY <1>3, <1>4 DEF Rests, Buffers
<1>. QED
  BY <1>1, <1>2, <1>3, <1>5 DEF Rests

LEMMA RestsPrompt ==
  ASSUME NEW a, IsAdapter(a), Buffers(a)
  PROVE  Rests(a, Agent!PromptStarted(a))
<1>1. PICK q : q = Agent!Quiet(a)
  OBVIOUS
<1>2. PICK b : b = [q EXCEPT !.prompted = TRUE,
                             !.current = Agent!Working("prompt"),
                             !.typed = [what |-> "prompt", seq |-> 0,
                                        into |-> a.screen]]
  OBVIOUS
<1>3. PICK c : c = Agent!Busy(b, "prompt")
  OBVIOUS
<1>4. Rests(a, q) /\ IsAdapter(q)
  BY <1>1, RestsQuiet DEF Rests
<1>5. Kept(q, b)
  BY <1>2, <1>4 DEF Kept, IsAdapter, Fields
<1>6. Rests(a, b) /\ IsAdapter(b)
  BY <1>4, <1>5, RestsKept DEF Rests
<1>7. Rests(a, c)
  BY <1>3, <1>6, AtKept, RestsKept
<1>. QED
  BY <1>1, <1>2, <1>3, <1>7, RestsBuffer DEF Agent!PromptStarted

LEMMA RestsAnswered ==
  ASSUME NEW a, NEW b, Rests(a, b), NEW response
  PROVE  Rests(a, Agent!Answered(b, response))
<1>. DEFINE live  == Agent!Live(b)
            opens == Agent!Encoding(live, response) = "open_write_in"
<1>1. PICK w : w = IF opens THEN [question |-> live.id, late |-> FALSE]
                   ELSE b.writeIn
  OBVIOUS
<1>2. PICK t : t = [what |-> "answer", seq |-> b.pending.seq, into |-> live]
  OBVIOUS
<1>3. PICK k : k = [screen |-> live, over |-> FALSE, opens |-> opens]
  OBVIOUS
<1>. PICK work : work = IF opens THEN "opening_write_in" ELSE "answered"
  OBVIOUS
<1>4. PICK c : c = [b EXCEPT !.pending = None, !.outcome = "Consumed",
                             !.consumed = k, !.typed = t, !.writeIn = w]
  OBVIOUS
<1>5. PICK d : d = Agent!Busy(c, work)
  OBVIOUS
<1>6. PICK e : e = [d EXCEPT !.seq = @ + 1,
                             !.buffer = Append(@, [kind |-> "progress",
                                                   seq |-> d.seq + 1])]
  OBVIOUS
<1>7. e = Agent!Answered(b, response)
  <2>1. c = [b EXCEPT
              !.pending = None, !.outcome = "Consumed",
              !.consumed = [screen |-> live, over |-> FALSE, opens |-> opens],
              !.typed = [what |-> "answer", seq |-> b.pending.seq,
                         into |-> live],
              !.writeIn = IF opens
                          THEN [question |-> live.id, late |-> FALSE] ELSE @]
    <3>1. w = IF opens THEN [question |-> live.id, late |-> FALSE]
              ELSE b.writeIn
      BY <1>1
    <3>. HIDE DEF live, opens
    <3>. QED
      BY <3>1, <1>2, <1>3, <1>4 DEF Rests, IsAdapter, Fields
  <2>. HIDE <1>1, <1>2, <1>3, <1>4
  <2>. QED
    BY <2>1, <1>5, <1>6 DEF Agent!Answered
<1>. HIDE DEF live, opens
<1>8. /\ DOMAIN c = Fields /\ c.seq = b.seq /\ c.out = b.out
      /\ c.buffer = b.buffer /\ c.pending = None
  BY <1>4 DEF Rests, IsAdapter, Fields
<1>9. IsAdapter(c)
  BY <1>8 DEF Rests, IsAdapter
<1>10. Rests(a, c)
  BY <1>8, <1>9 DEF Rests, Buffers
<1>11. Rests(a, d)
  BY <1>5, <1>9, <1>10, AtKept, RestsKept
<1>12. Rests(a, e)
  BY <1>6, <1>11, RestsBuffer
<1>. QED
  BY <1>7, <1>12

LEMMA RestsResponded ==
  ASSUME NEW a, IsAdapter(a), Buffers(a), NEW seq, NEW response, NEW sent
  PROVE  LET b == Agent!Responded(a, seq, response, sent) IN
         /\ Rests(a, b)
         /\ Agent!RespondError(a, seq, response, sent) = "ok" => b.pending = None
<1>1. PICK q : q = Agent!Quiet(a)
  OBVIOUS
<1>2. PICK l : l = Agent!Live(a)
  OBVIOUS
<1>3. PICK b : b = IF Agent!ReadsScreen(a, seq) THEN [q EXCEPT !.screen = l]
                   ELSE q
  OBVIOUS
<1>4. PICK e : e = Agent!RespondError(a, seq, response, sent)
  OBVIOUS
<1>5. PICK r : r = Agent!Responded(a, seq, response, sent)
  OBVIOUS
<1>6. r = CASE e = "ok" -> Agent!Answered(b, response)
            [] e = "disconnected" ->
                 IF ~alive THEN Agent!ExpirePending(b)
                 ELSE Agent!ExpirePending(Agent!At(b, "Exited"))
            [] e = "state_mismatch" /\ a.pending # None ->
                 Agent!ExpirePending([b EXCEPT !.current = l])
            [] OTHER -> b
  BY <1>1, <1>2, <1>3, <1>4, <1>5 DEF Agent!Responded
<1>7. Rests(a, q) /\ IsAdapter(q)
  BY <1>1, RestsQuiet DEF Rests
<1>8. Rests(a, b) /\ IsAdapter(b)
  BY <1>3, <1>7, FieldKept, RestsKept DEF Rests
<1>9. CASE e = "ok"
  <2>1. r = Agent!Answered(b, response)
    BY <1>6, <1>9
  <2>2. Rests(a, r)
    BY <1>8, <2>1, RestsAnswered
  <2>3. r.pending = None
    BY <1>8, <2>1, AnsweredEvolves
  <2>. QED
    BY <1>5, <2>2, <2>3
<1>10. CASE e # "ok"
  <2>1. PICK c : c = Agent!At(b, "Exited")
    OBVIOUS
  <2>2. PICK d : d = [b EXCEPT !.current = l]
    OBVIOUS
  <2>3. Rests(a, c) /\ Rests(a, d)
    BY <1>8, <2>1, <2>2, AtKept, FieldKept, RestsKept
  <2>4. /\ Rests(a, Agent!ExpirePending(b))
        /\ Rests(a, Agent!ExpirePending(c))
        /\ Rests(a, Agent!ExpirePending(d))
    BY <1>8, <2>3, RestsExpire
  <2>5. r \in {b, Agent!ExpirePending(b), Agent!ExpirePending(c),
               Agent!ExpirePending(d)}
    BY <1>6, <1>10, <2>1, <2>2
  <2>. QED
    BY <1>4, <1>5, <1>8, <1>10, <2>4, <2>5
<1>. QED
  BY <1>9, <1>10

LEMMA RestsDeadline ==
  ASSUME IsAdapter(adapter), Buffers(adapter), Agent!GraceEnds \/ Agent!WriteInLate
  PROVE  Rests(adapter, adapter')
<1>1. PICK q : q = Agent!Quiet(adapter)
  OBVIOUS
<1>2. Rests(adapter, q) /\ IsAdapter(q)
  BY <1>1, RestsQuiet DEF Rests
<1>3. CASE Agent!GraceEnds
  <2>1. PICK x : x = [q.consumed EXCEPT !.over = TRUE]
    OBVIOUS
  <2>2. PICK b : b = [q EXCEPT !.consumed = x]
    OBVIOUS
  <2>3. Rests(adapter, b)
    BY <1>2, <2>2, FieldKept, RestsKept
  <2>4. adapter' = b
    BY <1>1, <1>3, <2>1, <2>2 DEF Agent!GraceEnds
  <2>. QED
    BY <2>3, <2>4
<1>4. CASE Agent!WriteInLate
  <2>1. PICK x : x = [q.writeIn EXCEPT !.late = TRUE]
    OBVIOUS
  <2>2. PICK b : b = [q EXCEPT !.writeIn = x]
    OBVIOUS
  <2>3. Rests(adapter, b)
    BY <1>2, <2>2, FieldKept, RestsKept
  <2>4. adapter' = b
    BY <1>1, <1>4, <2>1, <2>2 DEF Agent!WriteInLate
  <2>. QED
    BY <2>3, <2>4
<1>. QED
  BY <1>3, <1>4

-----------------------------------------------------------------------------
(* The request the adapter has pending, on its way to the queue or in it.  *)

Harmless(m) == m.type = "event" => m.kind \in Murmurs

Announces(m, n) ==
  /\ m.type = "event" /\ m.kind \in Opening
  /\ m.seq = n /\ m.from.session = session

Silent(w) == \A i \in DOMAIN w : Harmless(w[i])

Announced(w, n) ==
  \E i \in DOMAIN w :
    Announces(w[i], n) /\ \A j \in DOMAIN w : j > i => Harmless(w[j])

InQueue(n) ==
  \E id \in Ids(queue) :
    /\ origin[id].session = session /\ events[id].agentSeq = n
    /\ IsRequest(id) /\ ~queue[id].superseded

(* No event that would outdate it is behind it.                            *)
Heard(n) ==
  \/ Announced(loop.outgoing, n)
  \/ Announced(upstream, n) /\ Silent(loop.outgoing)
  \/ InQueue(n) /\ Silent(upstream) /\ Silent(loop.outgoing)

AnswersOver ==
  \A i \in DOMAIN answers :
    LET id == answers[i].id IN
    /\ origin[id].session <= answers[i].session
    /\ answers[i].session = session =>
         /\ events[id].agentSeq <= adapter.seq
         /\ adapter.pending # None => events[id].agentSeq # adapter.pending.seq

Ask ==
  /\ adapter.pending # None => Heard(adapter.pending.seq)
  /\ Buffers(adapter)
  /\ \A id \in Ids(queue) : queue[id].state = "New"
  /\ AnswersOver

(* What becomes of the answers as the adapter moves on.                    *)
LEMMA AnswersStay ==
  ASSUME Good, Own, Ask, session' = session, events' = events,
         origin' = origin, answers' = answers,
         adapter' = adapter \/ Evolves(adapter, adapter')
  PROVE  AnswersOver'
<1>. PICK b : b = adapter'
  OBVIOUS
<1>1. IsAdapter(adapter) /\ adapter.seq \in Nat
  BY DEF Good, Typed, IsAdapter
<1>2. /\ b.seq \in Nat /\ adapter.seq <= b.seq
      /\ b.pending # None =>
           /\ b.pending.seq \in Nat
           /\ \/ adapter.pending # None /\ b.pending.seq = adapter.pending.seq
              \/ adapter.seq < b.pending.seq
  <2>1. CASE b = adapter
    BY <1>1, <2>1 DEF IsAdapter, RequestTyped
  <2>2. CASE Evolves(adapter, b)
    <3>1. IsAdapter(b)
      BY <2>2 DEF Evolves
    <3>. QED
      BY <2>2, <3>1 DEF Evolves, IsAdapter, RequestTyped
  <2>. QED
    BY <2>1, <2>2
<1>3. ASSUME NEW i \in DOMAIN answers
      PROVE  LET id == answers[i].id IN
             /\ origin[id].session <= answers[i].session
             /\ answers[i].session = session =>
                  /\ events[id].agentSeq <= b.seq
                  /\ b.pending # None => events[id].agentSeq # b.pending.seq
  <2>. PICK id : id = answers[i].id
    OBVIOUS
  <2>1. id \in DOMAIN events /\ events[id].agentSeq \in Nat
    BY Numbered DEF Good, AllTold
  <2>2. /\ origin[id].session <= answers[i].session
        /\ answers[i].session = session =>
             /\ events[id].agentSeq <= adapter.seq
             /\ adapter.pending # None => events[id].agentSeq # adapter.pending.seq
    BY DEF Ask, AnswersOver
  <2>3. PICK n \in Nat : n = events[id].agentSeq
    BY <2>1
  <2>4. ASSUME answers[i].session = session
        PROVE  n <= b.seq /\ (b.pending # None => n # b.pending.seq)
    <3>1. n <= adapter.seq /\ (adapter.pending # None => n # adapter.pending.seq)
      BY <2>2, <2>3, <2>4
    <3>. QED
      BY <1>1, <1>2, <3>1
  <2>. QED
    BY <2>2, <2>3, <2>4
<1>. QED
  BY <1>3 DEF AnswersOver

-----------------------------------------------------------------------------
(* What is on its way, taken off the front and added at the end.           *)

LEMMA HeadTaken ==
  ASSUME NEW S, NEW w \in Seq(S), w # <<>>, NEW n
  PROVE  /\ Silent(w) => Harmless(Head(w)) /\ Silent(Tail(w))
         /\ Announced(w, n) =>
              \/ Announced(Tail(w), n)
              \/ Announces(Head(w), n) /\ Silent(Tail(w))
         /\ Announced(w, n) /\ ~Announces(Head(w), n) => Announced(Tail(w), n)
<1>1. PICK m \in Nat : m = Len(w) /\ m > 0 /\ DOMAIN w = 1..m
  BY EmptySeq, LenProperties
<1>2. PICK t \in Seq(S) : t = Tail(w)
  BY HeadTailProperties
<1>3. /\ DOMAIN t = 1..(m - 1) /\ Head(w) = w[1]
      /\ \A i \in 1..(m - 1) : i + 1 \in 1..m /\ t[i] = w[i + 1]
  BY <1>1, <1>2, HeadTailProperties, LenProperties
<1>4. Silent(w) => Harmless(Head(w)) /\ Silent(t)
  BY <1>1, <1>3 DEF Silent
<1>5. ASSUME Announced(w, n), ~(Announces(Head(w), n) /\ Silent(t))
      PROVE  Announced(t, n)
  <2>1. PICK i \in 1..m :
          Announces(w[i], n) /\ \A j \in 1..m : j > i => Harmless(w[j])
    BY <1>1, <1>5 DEF Announced
  <2>2. i # 1
    <3>1. CASE i = 1
      <4>1. \A j \in 1..(m - 1) : Harmless(t[j])
        BY <1>3, <2>1, <3>1
      <4>. QED
        BY <1>3, <1>5, <2>1, <3>1, <4>1 DEF Silent
    <3>. QED
      BY <3>1
  <2>3. i - 1 \in 1..(m - 1) /\ (i - 1) + 1 = i
    BY <2>2
  <2>4. Announces(t[i - 1], n)
    BY <1>3, <2>1, <2>3
  <2>5. \A j \in 1..(m - 1) : j > i - 1 => Harmless(t[j])
    <3>. TAKE j \in 1..(m - 1)
    <3>. HAVE j > i - 1
    <3>1. j + 1 > i /\ j + 1 \in 1..m
      OBVIOUS
    <3>. QED
      BY <1>3, <2>1, <3>1
  <2>. QED
    BY <1>3, <2>3, <2>4, <2>5 DEF Announced
<1>. QED
  BY <1>2, <1>4, <1>5

LEMMA EndAdded ==
  ASSUME NEW S, NEW w \in Seq(S), NEW e, NEW n
  PROVE  /\ Silent(w) /\ Harmless(e) => Silent(Append(w, e))
         /\ Announced(w, n) /\ Harmless(e) => Announced(Append(w, e), n)
         /\ Announces(e, n) => Announced(Append(w, e), n)
<1>. PICK t : t = Append(w, e)
  OBVIOUS
<1>1. PICK m \in Nat : m = Len(w) /\ DOMAIN w = 1..m
  BY LenProperties
<1>2. /\ DOMAIN t = 1..(m + 1) /\ t[m + 1] = e
      /\ \A i \in 1..m : t[i] = w[i]
      /\ \A i \in 1..(m + 1) : i \in 1..m \/ i = m + 1
  BY <1>1, AppendElements
<1>3. Silent(w) /\ Harmless(e) => Silent(t)
  BY <1>1, <1>2 DEF Silent
<1>4. ASSUME Announced(w, n), Harmless(e) PROVE Announced(t, n)
  <2>1. PICK i \in 1..m :
          Announces(w[i], n) /\ \A j \in 1..m : j > i => Harmless(w[j])
    BY <1>1, <1>4 DEF Announced
  <2>2. i \in 1..(m + 1) /\ Announces(t[i], n)
    BY <1>2, <2>1
  <2>3. \A j \in 1..(m + 1) : j > i => Harmless(t[j])
    BY <1>2, <1>4, <2>1
  <2>. QED
    BY <1>2, <2>2, <2>3 DEF Announced
<1>5. ASSUME Announces(e, n) PROVE Announced(t, n)
  <2>1. m + 1 \in 1..(m + 1) /\ \A j \in 1..(m + 1) : ~(j > m + 1)
    OBVIOUS
  <2>. QED
    BY <1>2, <1>5, <2>1 DEF Announced
<1>. QED
  BY <1>3, <1>4, <1>5

(* What a step does to the attention an entry needs: nothing.              *)
SameShown(q, r) ==
  /\ Ids(r) = Ids(q)
  /\ \A x \in Ids(q) : r[x].state = q[x].state /\ r[x].superseded = q[x].superseded

LEMMA ShownOn ==
  ASSUME NEW q, NEW r, NEW s, SameShown(q, r), SameShown(r, s)
  PROVE  SameShown(q, s)
BY DEF SameShown

LEMMA ResolvingShows ==
  ASSUME NEW q \in Seq(QueueEntry), NEW id, NEW d
  PROVE  /\ SameShown(q, RespondRequest(q, id))
         /\ SameShown(q, MarkDelivered(q, id, d))
         /\ SameShown(q, MarkDeliveryFailed(q, id))
<1>1. \A x \in Ids(q) : q[x] \in QueueEntry
  BY LenProperties DEF Ids
<1>2. ASSUME NEW v PROVE SameShown(q, [q EXCEPT ![id].resolution = v])
  <2>. PICK r : r = [q EXCEPT ![id].resolution = v]
    OBVIOUS
  <2>1. Ids(r) = Ids(q)
    BY DEF Ids
  <2>2. ASSUME NEW x \in Ids(q)
        PROVE  r[x].state = q[x].state /\ r[x].superseded = q[x].superseded
    <3>1. r[x] = q[x] \/ r[x] = [q[x] EXCEPT !.resolution = v]
      BY DEF Ids
    <3>. QED
      BY <1>1, <3>1 DEF QueueEntry
  <2>. QED
    BY <2>1, <2>2 DEF SameShown
<1>. QED
  BY <1>2 DEF RespondRequest, MarkDelivered, MarkDeliveryFailed

LEMMA ScoringShows ==
  ASSUME NEW q \in Seq(QueueEntry), NEW es, NEW id, NEW t
  PROVE  SameShown(q, UpdateEntryScore(q, es, id, t))
<1>. PICK r : r = UpdateEntryScore(q, es, id, t)
  OBVIOUS
<1>1. \A x \in Ids(q) : q[x] \in QueueEntry
  BY LenProperties DEF Ids
<1>2. Ids(r) = Ids(q)
  BY DEF Ids, UpdateEntryScore, Scored
<1>3. ASSUME NEW x \in Ids(q)
      PROVE  r[x].state = q[x].state /\ r[x].superseded = q[x].superseded
  <2>. PICK v : v = Score(q[x], es[x], t)
    OBVIOUS
  <2>1. r[x] = q[x] \/ r[x] = [q[x] EXCEPT !.score = v]
    BY DEF UpdateEntryScore, Scored
  <2>. QED
    BY <1>1, <2>1 DEF QueueEntry
<1>. QED
  BY <1>2, <1>3 DEF SameShown

(* No decision and no word of one supersedes or dismisses an entry.        *)
LEMMA DecisionShows ==
  ASSUME IInv, NEW c, NEW id \in Ids(queue), NEW d \in Decisions,
         \/ RespondSent(c, id, d) \/ RespondOverflow(c, id, d)
         \/ Delivered(id, d) \/ DeliveryFailed(id)
  PROVE  SameShown(queue, queue') /\ events' = events
<1>1. queue \in Seq(QueueEntry)
  BY Store
<1>. PICK posed : posed = RespondRequest(queue, id)
  OBVIOUS
<1>. PICK done : done = MarkDelivered(queue, id, d)
  OBVIOUS
<1>. PICK back : back = MarkDeliveryFailed(queue, id)
  OBVIOUS
<1>2. /\ SameShown(queue, posed) /\ SameShown(queue, done) /\ SameShown(queue, back)
  BY <1>1, ResolvingShows
<1>3. SameShown(queue, queue)
  BY DEF SameShown
<1>4. CASE RespondSent(c, id, d) \/ RespondOverflow(c, id, d)
  <2>1. RespondVerdict(queue, id) = "ok"
    BY <1>4 DEF RespondSent, RespondOverflow
  <2>2. posed \in Seq(QueueEntry) /\ Len(posed) = Len(queue)
    <3>1. queue[id].resolution = "Unresolved"
      <4>1. queue[id] \in QueueEntry
        BY Store
      <4>. QED
        BY <2>1, <4>1 DEF RespondVerdict, Known, QueueEntry, Resolutions
    <3>. QED
      BY <1>1, <3>1, RespondedStatuses
  <2>. PICK sent : sent = UpdateEntryScore(posed, events, id, now)
    OBVIOUS
  <2>3. sent \in Seq(QueueEntry) /\ SameShown(queue, sent)
    BY <1>2, <2>2, ThenRescored, ScoringShows, ShownOn
  <2>. PICK undone : undone = MarkDeliveryFailed(sent, id)
    OBVIOUS
  <2>4. SameShown(queue, undone)
    BY <2>3, ResolvingShows, ShownOn
  <2>5. undone \in Seq(QueueEntry)
    <3>1. id \in Ids(sent)
      BY <2>3 DEF SameShown
    <3>. QED
      BY <2>3, <3>1, FailedStatuses
  <2>6. SameShown(queue, UpdateEntryScore(undone, events, id, now))
    BY <2>4, <2>5, ScoringShows, ShownOn
  <2>. QED
    BY <1>4, <2>3, <2>6 DEF RespondSent, RespondOverflow
<1>5. CASE Delivered(id, d) \/ DeliveryFailed(id)
  <2>1. done \in Seq(QueueEntry) /\ back \in Seq(QueueEntry)
    BY <1>1, DeliveredStatuses, FailedStatuses
  <2>2. /\ SameShown(queue, UpdateEntryScore(done, events, id, now))
        /\ SameShown(queue, UpdateEntryScore(back, events, id, now))
    BY <1>2, <2>1, ScoringShows, ShownOn
  <2>. QED
    BY <1>3, <1>5, <2>2 DEF Delivered, DeliveryFailed
<1>. QED
  BY <1>4, <1>5

-----------------------------------------------------------------------------
(* The steps of the daemon.                                                *)

(* The same said of what a step leaves.                                    *)
LEMMA NextSaid ==
  ASSUME session' = session, NEW n
  PROVE  /\ \A w : w = upstream' =>
              /\ Announced(w, n) => Announced(upstream, n)'
              /\ Silent(w) => Silent(upstream)'
         /\ \A w : w = loop'.outgoing =>
              /\ Announced(w, n) => Announced(loop.outgoing, n)'
              /\ Silent(w) => Silent(loop.outgoing)'
BY DEF Announced, Silent, Announces, Harmless

LEMMA StillInQueue ==
  ASSUME session' = session, origin' = origin, events' = events,
         SameShown(queue, queue'), NEW n, InQueue(n)
  PROVE  InQueue(n)'
BY DEF InQueue, SameShown, IsRequest

LEMMA StillHeard ==
  ASSUME session' = session, origin' = origin, events' = events,
         SameShown(queue, queue'), upstream' = upstream,
         loop'.outgoing = loop.outgoing, NEW n, Heard(n)
  PROVE  Heard(n)'
BY NextSaid, StillInQueue DEF Heard

LEMMA AskKept ==
  ASSUME Good, Own, Ask, session' = session, origin' = origin,
         answers' = answers, events' = events, SameShown(queue, queue'),
         adapter' = adapter
           \/ (Rests(adapter, adapter') /\ Evolves(adapter, adapter')),
         \A n : Heard(n) => Heard(n)'
  PROVE  Ask'
<1>1. AnswersOver'
  BY AnswersStay
<1>2. \A id \in Ids(queue') : queue'[id].state = "New"
  BY DEF SameShown, Ask
<1>. PICK b : b = adapter'
  OBVIOUS
<1>3. Buffers(b)
  BY DEF Ask, Rests
<1>4. b.pending # None => adapter.pending # None /\ b.pending.seq = adapter.pending.seq
  BY DEF Rests
<1>5. ASSUME b.pending # None PROVE Heard(b.pending.seq)'
  <2>. PICK n : n = adapter.pending.seq
    OBVIOUS
  <2>1. Heard(n)'
    BY <1>4, <1>5 DEF Ask
  <2>. QED
    BY <1>4, <1>5, <2>1 DEF Heard, Announced, Announces, InQueue
<1>. QED
  BY <1>1, <1>2, <1>3, <1>5 DEF Ask, Buffers

LEMMA AdapterGood == ASSUME Good PROVE IsAdapter(adapter) /\ LInv /\ IInv
BY DEF Good, Typed, LInv

LEMMA QueueRests ==
  ASSUME UNCHANGED core
  PROVE  SameShown(queue, queue') /\ events' = events /\ commands' = commands
BY DEF core, SameShown

LEMMA SelectAsk == ASSUME Good, Own, Ask, SelectTimeout PROVE Ask'
<1>. PICK F : loop \in LoopFrom(F)
  BY DEF Good, Typed
<1>1. /\ UNCHANGED core /\ adapter' = adapter /\ answers' = answers
      /\ origin' = origin /\ session' = session
      /\ upstream' = upstream /\ loop'.outgoing = loop.outgoing
  BY DEF SelectTimeout, history, agentSide, LoopFrom
<1>. QED
  BY <1>1, QueueRests, StillHeard, AskKept

LEMMA AgentAsk == ASSUME Good, Own, Ask, AgentMoves PROVE Ask'
<1>1. /\ UNCHANGED core /\ answers' = answers /\ session' = session
      /\ origin' = origin /\ upstream' = upstream /\ loop' = loop
  BY DEF AgentMoves, history
<1>2. adapter' = adapter \/ (Rests(adapter, adapter') /\ Evolves(adapter, adapter'))
  <2>1. CASE Agent!AgentShows \/ Agent!AgentDies
    BY <2>1 DEF Agent!AgentShows, Agent!AgentDies
  <2>2. CASE Agent!GraceEnds \/ Agent!WriteInLate
    BY <2>2, AdapterGood, RestsDeadline, DeadlineEvolves DEF Ask
  <2>. QED
    BY <2>1, <2>2 DEF AgentMoves
<1>3. loop'.outgoing = loop.outgoing
  BY <1>1
<1>. QED
  BY <1>1, <1>2, <1>3, QueueRests, StillHeard, AskKept

LEMMA ClientAsk ==
  ASSUME Good, Own, Ask, ClientDecides \/ ClientPrompts PROVE Ask'
<1>1. /\ adapter' = adapter /\ answers' = answers /\ session' = session
      /\ origin' = origin /\ upstream' = upstream /\ loop' = loop
  BY DEF ClientDecides, ClientPrompts, history, agentSide
<1>2. SameShown(queue, queue') /\ events' = events
  <2>1. CASE ClientPrompts
    BY <2>1 DEF ClientPrompts, ClientStartTask, SameShown
  <2>2. CASE ClientDecides
    <3>1. PICK c \in Clients, id \in Ids(queue), d \in Decisions :
            RespondSent(c, id, d) \/ RespondOverflow(c, id, d)
      BY <2>2 DEF ClientDecides
    <3>. QED
      BY <3>1, AdapterGood, DecisionShows
  <2>. QED
    BY <2>1, <2>2
<1>3. loop'.outgoing = loop.outgoing
  BY <1>1
<1>. QED
  BY <1>1, <1>2, <1>3, StillHeard, AskKept

(* A message goes from the loop to the core: the order stays.              *)
LEMMA SendAsk == ASSUME Good, Own, Ask, SendToCore PROVE Ask'
<1>1. /\ UNCHANGED core /\ adapter' = adapter /\ answers' = answers
      /\ origin' = origin /\ session' = session
      /\ loop.outgoing # <<>>
      /\ upstream' = Append(upstream, Head(loop.outgoing))
      /\ loop' = [loop EXCEPT !.outgoing = Tail(loop.outgoing)]
  BY DEF SendToCore, history, agentSide
<1>. PICK F : loop \in LoopFrom(F) /\ upstream \in Seq(MessagesFrom(F))
  BY DEF Good, Typed
<1>. PICK S : S = MessagesFrom(F)
  OBVIOUS
<1>. PICK o \in Seq(S) : o = loop.outgoing /\ o # <<>>
  BY <1>1 DEF LoopFrom
<1>. PICK u \in Seq(S) : u = upstream
  OBVIOUS
<1>. PICK m : m = Head(o)
  OBVIOUS
<1>2. loop'.outgoing = Tail(o)
  BY <1>1 DEF LoopFrom
<1>3. ASSUME NEW n, Heard(n) PROVE Heard(n)'
  <2>1. \/ Announced(Tail(o), n)
        \/ Announced(Append(u, m), n) /\ Silent(Tail(o))
        \/ InQueue(n) /\ Silent(Append(u, m)) /\ Silent(Tail(o))
    BY <1>3, HeadTaken, EndAdded DEF Heard
  <2>2. /\ Announced(Tail(o), n) => Announced(loop.outgoing, n)'
        /\ Silent(Tail(o)) => Silent(loop.outgoing)'
        /\ Announced(Append(u, m), n) => Announced(upstream, n)'
        /\ Silent(Append(u, m)) => Silent(upstream)'
    BY <1>1, <1>2, NextSaid
  <2>3. InQueue(n) => InQueue(n)'
    BY <1>1, QueueRests, StillInQueue
  <2>. QED
    BY <2>1, <2>2, <2>3 DEF Heard
<1>. QED
  BY <1>1, <1>3, QueueRests, AskKept

LEMMA HearAsk == ASSUME Good, Own, Ask, CoreOutcome PROVE Ask'
<1>1. /\ session' = session /\ adapter' = adapter
      /\ origin' = origin /\ answers' = answers /\ loop' = loop
      /\ upstream # <<>> /\ upstream' = Tail(upstream)
      /\ Head(upstream).type = "outcome"
  BY DEF CoreOutcome, agentSide, history
<1>. PICK F : upstream \in Seq(MessagesFrom(F))
  BY DEF Good, Typed
<1>. PICK S : S = MessagesFrom(F)
  OBVIOUS
<1>. PICK u \in Seq(S) : u = upstream /\ u # <<>>
  BY <1>1
<1>. PICK m \in S : m = Head(u)
  BY HeadTailProperties
<1>2. SameShown(queue, queue') /\ events' = events
  <2>1. m.decision \in Decisions
    BY <1>1 DEF MessagesFrom
  <2>2. m.id \in Ids(queue)
    <3>1. 1 \in DOMAIN u /\ m = u[1]
      BY TailElements
    <3>. QED
      BY <1>1, <3>1 DEF Good, AllTold, WordTold
  <2>3. Delivered(m.id, m.decision) \/ DeliveryFailed(m.id)
    BY DEF CoreOutcome
  <2>. QED
    BY <2>1, <2>2, <2>3, AdapterGood, DecisionShows
<1>3. ASSUME NEW n, Heard(n) PROVE Heard(n)'
  <2>1. ~Announces(m, n)
    BY <1>1 DEF Announces
  <2>2. \/ Announced(loop.outgoing, n)
        \/ Announced(Tail(u), n) /\ Silent(loop.outgoing)
        \/ InQueue(n) /\ Silent(Tail(u)) /\ Silent(loop.outgoing)
    BY <1>3, <2>1, HeadTaken DEF Heard
  <2>3. InQueue(n) => InQueue(n)'
    BY <1>1, <1>2, StillInQueue
  <2>4. loop'.outgoing = loop.outgoing
    BY <1>1
  <2>. QED
    BY <1>1, <2>2, <2>3, <2>4, NextSaid DEF Heard
<1>. QED
  BY <1>1, <1>2, <1>3, AskKept

(* A poll tells everything at once, in order.                              *)
LEMMA PollTells ==
  ASSUME IsAdapter(adapter), Buffers(adapter), PollAdapter
  PROVE  \E polled :
           /\ Stage(adapter, polled) /\ Rests(polled, adapter')
           /\ Evolves(adapter, polled) /\ Evolves(polled, adapter')
           /\ loop' = [at |-> "select", outgoing |-> EventMessages(polled)]
<1>. PICK evidence \in BOOLEAN, sent \in BOOLEAN :
       \E best   \in Agent!PollOutcomes(adapter, evidence, TRUE),
          polled \in Agent!PollOutcomes(adapter, evidence, sent) :
         LET ready == held /\ Agent!AcceptsChatInput(polled.screen) IN
         /\ Agent!Writes(IF ready THEN Agent!PromptStarted(best).typed
                         ELSE best.typed, sent)
         /\ adapter' = IF ready /\ sent THEN Agent!PromptStarted(polled)
                       ELSE polled
         /\ held' = (held /\ ~ready)
         /\ loop' = [at |-> "select", outgoing |-> EventMessages(polled)]
  BY DEF PollAdapter
<1>. PICK polled \in Agent!PollOutcomes(adapter, evidence, sent) :
       /\ adapter' = Agent!PromptStarted(polled) \/ adapter' = polled
       /\ loop' = [at |-> "select", outgoing |-> EventMessages(polled)]
  OBVIOUS
<1>1. Stage(adapter, polled)
  BY StagePoll
<1>2. Evolves(adapter, polled) /\ IsAdapter(polled)
  BY PollEvolves DEF Evolves
<1>3. Kept(polled, polled)
  BY DEF Kept
<1>4. Evolves(polled, polled) /\ Evolves(polled, Agent!PromptStarted(polled))
  BY <1>2, <1>3, KeptEvolves, PromptEvolves
<1>5. Buffers(polled)
  BY <1>1 DEF Stage
<1>6. Rests(polled, polled) /\ Rests(polled, Agent!PromptStarted(polled))
  BY <1>2, <1>5, RestsQuiet, RestsPrompt
<1>. QED
  BY <1>1, <1>2, <1>4, <1>6

LEMMA MessagesSay ==
  ASSUME NEW a, IsAdapter(a), NEW n
  PROVE  /\ Murmured(a.out) => Silent(EventMessages(a))
         /\ Opens(a.out, n) => Announced(EventMessages(a), n)
<1>. PICK m : m = EventMessages(a)
  OBVIOUS
<1>1. DOMAIN m = DOMAIN a.out
  BY DEF EventMessages
<1>2. ASSUME NEW i \in DOMAIN m
      PROVE  /\ m[i].type = "event" /\ m[i].kind = a.out[i].kind
             /\ m[i].seq = a.out[i].seq /\ m[i].from.session = session
  BY <1>1 DEF EventMessages, EventMessage
<1>3. ASSUME Murmured(a.out) PROVE Silent(m)
  BY <1>1, <1>2, <1>3 DEF Murmured, Silent, Harmless
<1>4. ASSUME Opens(a.out, n) PROVE Announced(m, n)
  <2>1. PICK i \in DOMAIN m :
          /\ a.out[i].kind \in Opening /\ a.out[i].seq = n
          /\ \A j \in DOMAIN m : j > i => a.out[j].kind \in Murmurs
    BY <1>1, <1>4 DEF Opens
  <2>2. Announces(m[i], n)
    BY <1>2, <2>1 DEF Announces
  <2>3. \A j \in DOMAIN m : j > i => Harmless(m[j])
    BY <1>2, <2>1 DEF Harmless
  <2>. QED
    BY <2>2, <2>3 DEF Announced
<1>. QED
  BY <1>3, <1>4

LEMMA PollAsk == ASSUME Good, Own, Ask, PollAdapter PROVE Ask'
<1>1. /\ session' = session /\ UNCHANGED core
      /\ origin' = origin /\ answers' = answers /\ upstream' = upstream
      /\ loop.outgoing = <<>>
  BY DEF PollAdapter, Waiting, history
<1>2. IsAdapter(adapter) /\ Buffers(adapter)
  BY AdapterGood DEF Ask
<1>3. PICK polled :
           /\ Stage(adapter, polled) /\ Rests(polled, adapter')
           /\ Evolves(adapter, polled) /\ Evolves(polled, adapter')
           /\ loop' = [at |-> "select", outgoing |-> EventMessages(polled)]
  BY <1>2, PollTells
<1>4. IsAdapter(polled)
  BY <1>3 DEF Evolves
<1>5. Evolves(adapter, adapter')
  BY <1>2, <1>3, EvolvesOn
<1>6. SameShown(queue, queue') /\ events' = events
  BY <1>1, QueueRests
<1>7. AnswersOver'
  BY <1>1, <1>5, <1>6, AnswersStay
<1>8. \A id \in Ids(queue') : queue'[id].state = "New"
  BY <1>6 DEF SameShown, Ask
<1>. PICK b : b = adapter'
  OBVIOUS
<1>9. Buffers(b)
  BY <1>3 DEF Rests
<1>10. ASSUME b.pending # None PROVE Heard(b.pending.seq)'
  <2>. PICK n : n = b.pending.seq
    OBVIOUS
  <2>1. polled.pending # None /\ polled.pending.seq = n
    BY <1>3, <1>10 DEF Rests
  <2>. PICK m : m = EventMessages(polled)
    OBVIOUS
  <2>2. loop'.outgoing = m
    BY <1>3
  <2>3. CASE Opens(polled.out, n)
    <3>1. Announced(m, n)
      BY <1>4, <2>3, MessagesSay
    <3>2. Announced(loop.outgoing, n)'
      BY <1>1, <2>2, <3>1, NextSaid
    <3>. QED
      BY <3>2 DEF Heard, Announced, Announces, InQueue, Silent
  <2>4. CASE Murmured(polled.out) /\ adapter.pending # None
             /\ adapter.pending.seq = n
    <3>1. Silent(m)
      BY <1>4, <2>4, MessagesSay
    <3>2. Silent(loop.outgoing)'
      BY <1>1, <2>2, <3>1, NextSaid
    <3>3. Heard(n)
      BY <2>4 DEF Ask
    <3>4. ~Announced(loop.outgoing, n)
      BY <1>1 DEF Announced
    <3>5. Announced(upstream, n) \/ (InQueue(n) /\ Silent(upstream))
      BY <3>3, <3>4 DEF Heard
    <3>6. /\ Announced(upstream, n) => Announced(upstream, n)'
          /\ Silent(upstream) => Silent(upstream)'
      BY <1>1, NextSaid
    <3>7. InQueue(n) => InQueue(n)'
      BY <1>1, <1>6, StillInQueue
    <3>8. Heard(n)'
      BY <3>2, <3>5, <3>6, <3>7 DEF Heard
    <3>. QED
      BY <3>8 DEF Heard, Announced, Announces, InQueue, Silent
  <2>5. \/ Opens(polled.out, n)
        \/ Murmured(polled.out) /\ adapter.pending # None
             /\ adapter.pending.seq = n
    BY <1>3, <2>1 DEF Stage
  <2>. QED
    BY <2>3, <2>4, <2>5
<1>. QED
  BY <1>7, <1>8, <1>9, <1>10 DEF Ask, Buffers

(* A new process: nothing is pending, and no answer was typed into it.     *)
LEMMA PromptAsk == ASSUME Good, Own, Ask, DeliverPrompt PROVE Ask'
<1>1. /\ events' = events /\ origin' = origin /\ answers' = answers
      /\ upstream' = upstream /\ queue' = queue
      /\ loop' = [loop EXCEPT !.at = "poll"]
      /\ \/ session' = session /\ adapter' = adapter
         \/ /\ session < MaxSessions /\ session' = session + 1
            /\ adapter' = Agent!NewAdapter(TRUE)
  BY DEF DeliverPrompt, TakeCommand, history
<1>2. loop'.outgoing = loop.outgoing
  <2>. PICK F : loop \in LoopFrom(F)
    BY DEF Good, Typed
  <2>. QED
    BY <1>1 DEF LoopFrom
<1>3. SameShown(queue, queue')
  BY <1>1 DEF SameShown
<1>4. CASE session' = session /\ adapter' = adapter
  BY <1>1, <1>2, <1>3, <1>4, StillHeard, AskKept
<1>5. CASE session' = session + 1 /\ adapter' = Agent!NewAdapter(TRUE)
  <2>. PICK b : b = adapter'
    OBVIOUS
  <2>1. b.pending = None /\ b.buffer = <<>>
    BY <1>5 DEF Agent!NewAdapter
  <2>2. Buffers(b)
    BY <2>1 DEF Buffers
  <2>. PICK n \in Nat : n = session
    BY Numbered
  <2>3. \A i \in DOMAIN answers : answers[i].session \in 1..n
    BY DEF Own
  <2>4. AnswersOver'
    <3>1. ASSUME NEW i \in DOMAIN answers
          PROVE  /\ origin[answers[i].id].session <= answers[i].session
                 /\ answers[i].session # n + 1
      BY <2>3 DEF Ask, AnswersOver
    <3>. QED
      BY <1>1, <1>5, <3>1 DEF AnswersOver
  <2>. QED
    BY <1>1, <2>1, <2>2, <2>4 DEF Ask, Buffers
<1>. QED
  BY <1>1, <1>4, <1>5

(* An answer that is typed is to the pending request, which is then over.  *)
LEMMA DeliverRests ==
  ASSUME IsAdapter(adapter), Buffers(adapter), DeliverDecision
  PROVE  LET command == Head(commands) IN
         \E ok \in BOOLEAN :
           /\ loop' = [at |-> "poll",
                       outgoing |-> <<[type |-> "outcome", id |-> command.id,
                                       decision |-> command.decision,
                                       delivered |-> ok]>>]
           /\ Rests(adapter, adapter') /\ Evolves(adapter, adapter')
           /\ ~ok => answers' = answers
           /\ ok => /\ answers' = Append(answers,
                                    [id |-> command.id,
                                     decision |-> command.decision,
                                     session |-> session,
                                     screen |-> adapter'.typed.into])
                    /\ adapter.pending # None
                    /\ adapter.pending.seq = command.seq
                    /\ adapter'.pending = None
<1>. PICK command : command = Head(commands)
  OBVIOUS
<1>. PICK response \in ResponsesFor(Head(commands).decision), sent \in BOOLEAN :
       LET error == Agent!RespondError(adapter, command.seq, response, sent) IN
       /\ adapter' = Agent!Responded(adapter, command.seq, response, sent)
       /\ loop' = [at |-> "poll", outgoing |-> Report(command, error)]
       /\ answers' = IF error = "ok"
                     THEN Append(answers,
                            [id |-> command.id, decision |-> command.decision,
                             session |-> session,
                             screen |-> adapter'.typed.into])
                     ELSE answers
  BY DEF DeliverDecision
<1>. PICK error :
       error = Agent!RespondError(adapter, command.seq, response, sent)
  OBVIOUS
<1>1. /\ Evolves(adapter, adapter')
      /\ error = "ok" =>
           adapter.pending # None /\ adapter.pending.seq = command.seq
  BY RespondedEvolves
<1>2. /\ Rests(adapter, adapter')
      /\ error = "ok" => adapter'.pending = None
  BY RestsResponded
<1>. PICK ok \in BOOLEAN : ok = (error = "ok")
  OBVIOUS
<1>3. loop' = [at |-> "poll",
               outgoing |-> <<[type |-> "outcome", id |-> command.id,
                               decision |-> command.decision,
                               delivered |-> ok]>>]
  BY DEF Report, Outcome
<1>. QED
  BY <1>1, <1>2, <1>3

LEMMA DeliverAsk == ASSUME Good, Own, Ask, DeliverDecision PROVE Ask'
<1>1. /\ session' = session /\ events' = events /\ origin' = origin
      /\ upstream' = upstream /\ queue' = queue /\ loop.outgoing = <<>>
      /\ commands # <<>> /\ Head(commands).type = "respond"
  BY DEF DeliverDecision, TakeCommand, Waiting
<1>. PICK S : commands \in Seq(S)
  BY DEF Good, Typed, LInv, CommandsTyped
<1>. PICK T : answers \in Seq(T)
  BY DEF Good, Typed
<1>. PICK command \in S : command = Head(commands)
  BY <1>1, HeadTailProperties
<1>2. 1 \in DOMAIN commands /\ command = commands[1]
  BY <1>1, TailElements
<1>3. /\ command.seq = events[command.id].agentSeq
      /\ command.id \in Ids(queue)
  BY <1>1, <1>2 DEF Own, Good, AllTold, AskTold
<1>4. IsAdapter(adapter) /\ Buffers(adapter)
  BY AdapterGood DEF Ask
<1>5. PICK ok \in BOOLEAN :
        /\ loop' = [at |-> "poll",
                    outgoing |-> <<[type |-> "outcome", id |-> command.id,
                                    decision |-> command.decision,
                                    delivered |-> ok]>>]
        /\ Rests(adapter, adapter') /\ Evolves(adapter, adapter')
        /\ ~ok => answers' = answers
        /\ ok => /\ answers' = Append(answers,
                                 [id |-> command.id,
                                  decision |-> command.decision,
                                  session |-> session,
                                  screen |-> adapter'.typed.into])
                 /\ adapter.pending # None
                 /\ adapter.pending.seq = command.seq
                 /\ adapter'.pending = None
  BY <1>4, DeliverRests
<1>6. SameShown(queue, queue')
  BY <1>1 DEF SameShown
<1>. PICK m : m = [type |-> "outcome", id |-> command.id,
                   decision |-> command.decision, delivered |-> ok]
  OBVIOUS
<1>7. loop'.outgoing = <<m>> /\ Harmless(m)
  BY <1>5 DEF Harmless
<1>8. Silent(<<m>>)
  BY <1>7 DEF Silent
<1>9. ASSUME NEW n, Heard(n) PROVE Heard(n)'
  <2>1. Announced(upstream, n) \/ (InQueue(n) /\ Silent(upstream))
    BY <1>1, <1>9 DEF Heard, Announced
  <2>2. /\ Announced(upstream, n) => Announced(upstream, n)'
        /\ Silent(upstream) => Silent(upstream)'
        /\ Silent(loop.outgoing)'
    BY <1>1, <1>7, <1>8, NextSaid
  <2>3. InQueue(n) => InQueue(n)'
    BY <1>1, <1>6, StillInQueue
  <2>. QED
    BY <2>1, <2>2, <2>3 DEF Heard
<1>10. CASE ~ok
  BY <1>1, <1>5, <1>6, <1>9, <1>10, AskKept
<1>11. CASE ok
  <2>. PICK e : e = [id |-> command.id, decision |-> command.decision,
                     session |-> session, screen |-> adapter'.typed.into]
    OBVIOUS
  <2>1. /\ e.id = command.id /\ e.session = session
    OBVIOUS
  <2>2. \A i \in DOMAIN answers' :
          answers'[i] = e \/ \E j \in DOMAIN answers : answers'[i] = answers[j]
    BY <1>5, <1>11, AppendElements
  <2>. PICK b : b = adapter'
    OBVIOUS
  <2>3. b.pending = None /\ Buffers(b) /\ adapter.seq <= b.seq /\ b.seq \in Nat
    BY <1>5, <1>11 DEF Rests, Evolves, IsAdapter
  <2>4. /\ KnownTo(adapter, session, events[e.id].agentSeq, origin[e.id])
        /\ session \in Nat
    BY <1>3, <2>1, Numbered DEF Own
  <2>5. origin[e.id].session <= session
    BY <2>4 DEF KnownTo
  <2>6. adapter.seq \in Nat /\ adapter.pending.seq \in 0..adapter.seq
    BY <1>4, <1>5, <1>11 DEF IsAdapter, RequestTyped
  <2>7. events[e.id].agentSeq \in Nat /\ events[e.id].agentSeq <= b.seq
    <3>1. events[e.id].agentSeq = adapter.pending.seq
      BY <1>3, <1>5, <1>11, <2>1
    <3>. QED
      BY <2>3, <2>6, <3>1
  <2>8. ASSUME NEW j \in DOMAIN answers
        PROVE  /\ origin[answers[j].id].session <= answers[j].session
               /\ answers[j].session = session =>
                    events[answers[j].id].agentSeq <= b.seq
    <3>1. /\ origin[answers[j].id].session <= answers[j].session
          /\ answers[j].session = session =>
               events[answers[j].id].agentSeq <= adapter.seq
      BY DEF Ask, AnswersOver
    <3>2. events[answers[j].id].agentSeq \in Nat
      BY Numbered DEF Good, AllTold
    <3>. QED
      BY <2>3, <2>6, <3>1, <3>2
  <2>9. AnswersOver'
    <3>1. ASSUME NEW i \in DOMAIN answers'
          PROVE  /\ origin[answers'[i].id].session <= answers'[i].session
                 /\ answers'[i].session = session =>
                      events[answers'[i].id].agentSeq <= b.seq
      BY <2>1, <2>2, <2>5, <2>7, <2>8
    <3>. QED
      BY <1>1, <2>3, <3>1 DEF AnswersOver
  <2>. QED
    BY <1>1, <2>3, <2>9 DEF Ask, Buffers
<1>. QED
  BY <1>10, <1>11

(* What the classifier makes of the kinds that matter here.                *)
LEMMA AgentVerdicts ==
  ASSUME NEW kind
  PROVE  /\ kind \in Murmurs => Verdict(kind, Carries(kind))[1] = "Working"
         /\ kind \in Opening => Verdict(kind, Carries(kind))[1] = "Request"
<1>. SUFFICES ASSUME kind \in Murmurs \cup Opening
              PROVE  Verdict(kind, Carries(kind))[1]
                       = IF kind \in Murmurs THEN "Working" ELSE "Request"
  BY DEF Murmurs, Opening
<1>1. kind \in Kinds /\ kind \notin UnknownKinds
  BY AgentKindsKnown DEF AgentKinds, Murmurs, Opening, UnknownKinds
<1>. PICK t \in Categories : t = IF kind \in Murmurs THEN "Working" ELSE "Request"
  BY DEF Categories
<1>2. \A c \in Categories, s \in Severities : kind \in KindsOf(c, s) => c = t
  <2>1. CASE kind \in Murmurs
    BY <2>1 DEF Murmurs, KindsOf, Categories, Severities
  <2>2. CASE kind \in Opening
    BY <2>2 DEF Murmurs, Opening, KindsOf, Categories, Severities
  <2>. QED
    BY <2>1, <2>2
<1>3. \E v \in Categories \X Severities : kind \in KindsOf(v[1], v[2])
  <2>. PICK c \in Categories, s \in Severities : kind \in KindsOf(c, s)
    BY <1>1 DEF Kinds
  <2>. QED
    BY <<c, s>> \in Categories \X Severities
<1>. DEFINE chosen == CHOOSE v \in Categories \X Severities :
                        kind \in KindsOf(v[1], v[2])
<1>4. chosen \in Categories \X Severities /\ kind \in KindsOf(chosen[1], chosen[2])
  BY <1>3
<1>. HIDE DEF chosen
<1>5. Tabled[kind] = chosen
  BY <1>1 DEF Tabled, chosen
<1>6. Classify(kind) = chosen
  BY <1>1, <1>5 DEF Classify, UnknownKinds
<1>7. chosen[1] = t
  BY <1>2, <1>4
<1>8. Carries(kind) => t = "Request"
  BY DEF Carries, Murmurs
<1>9. Verdict(kind, Carries(kind)) = Classify(kind)
  BY <1>6, <1>7, <1>8 DEF Verdict
<1>. QED
  BY <1>6, <1>7, <1>9

(* What an event does to the queue: the new entry, which nothing outdates  *)
(* yet, and nothing more unless the event closes or opens something.       *)
LEMMA EventShows ==
  ASSUME Typed, CoreEvent
  PROVE  LET m == Head(upstream)
             n == Len(events) IN
         /\ n \in Nat /\ events \in Seq(Event) /\ Ids(queue) = 1..n
         /\ Ids(queue') = 1..(n + 1)
         /\ \A x \in Ids(queue) : queue'[x].state = queue[x].state
         /\ queue'[n + 1].state = "New" /\ ~queue'[n + 1].superseded
         /\ \E event \in Event :
              /\ events' = Append(events, event) /\ event.agentSeq = m.seq
              /\ m.kind \in Opening => event.category = "Request"
              /\ m.kind \in Murmurs =>
                   \A x \in Ids(queue) :
                     queue'[x].superseded <=> queue[x].superseded
<1>. PICK F : upstream \in Seq(MessagesFrom(F))
  BY DEF Typed
<1>. PICK m \in MessagesFrom(F) : m = Head(upstream)
  BY HeadTailProperties DEF CoreEvent
<1>1. m.type = "event" /\ RawEvent(m.kind, Carries(m.kind), AgentTask, "Other", m.seq)
  BY DEF CoreEvent
<1>2. m.kind \in Kinds /\ m.seq \in Nat
  BY <1>1 DEF MessagesFrom
<1>3. Carries(m.kind) \in BOOLEAN /\ AgentTask \in Tasks /\ "Other" \in Operations
  BY DaemonAssumption DEF Carries, Operations
<1>4. Arrival
  BY <1>1, <1>2, <1>3 DEF Arrival
<1>5. IInv
  BY DEF Typed, LInv
<1>6. /\ Len(queue) = Len(events) /\ Len(queue) \in Nat /\ events \in Seq(Event)
      /\ Ids(queue) = 1..Len(queue)
  BY <1>5, Store
<1>. PICK n \in Nat : n = Len(events) /\ n = Len(queue) /\ Ids(queue) = 1..n
  BY <1>6
<1>7. PICK event \in Event, stale \in SUBSET Ids(queue) :
        /\ events' = Append(events, event)
        /\ queue' \in Seq(QueueEntry) /\ Len(queue') = n + 1
        /\ \A x \in Ids(queue) :
             /\ queue'[x].state = queue[x].state
             /\ queue'[x].superseded <=> queue[x].superseded \/ x \in stale
        /\ queue'[n + 1].state = "New" /\ ~queue'[n + 1].superseded
        /\ \A x \in Ids(queue) :
             x \in stale <=> x \in Outdated(open, event) /\ CanSupersede(queue, x)
  BY <1>4, <1>5, <1>6, ArrivalEffect
<1>8. PICK e : e = Processed(m.kind, Carries(m.kind), AgentTask, "Other", m.seq)
  OBVIOUS
<1>9. events' = Append(events, e)
  BY <1>1, <1>8 DEF RawEvent
<1>10. e = event
  <2>. PICK es \in Seq(Event) : es = events /\ Len(es) = n
    BY <1>6
  <2>1. Append(es, event)[n + 1] = event /\ Append(es, e)[n + 1] = e
    BY AppendElements
  <2>2. Append(es, event) = Append(es, e)
    BY <1>7, <1>9
  <2>. QED
    BY <2>1, <2>2
<1>. PICK v : v = Verdict(m.kind, Carries(m.kind))
  OBVIOUS
<1>11. event.agentSeq = m.seq /\ event.category = v[1]
  BY <1>8, <1>10 DEF Processed
<1>12. /\ m.kind \in Opening => event.category = "Request"
       /\ m.kind \in Murmurs => event.category = "Working"
  BY <1>11, AgentVerdicts
<1>13. ASSUME m.kind \in Murmurs PROVE stale = {}
  <2>1. Outdated(open, event) = {}
    BY <1>12, <1>13 DEF Outdated, Closes
  <2>. QED
    BY <1>7, <2>1
<1>14. Ids(queue') = 1..(n + 1)
  BY <1>7, LenProperties DEF Ids
<1>. QED
  BY <1>6, <1>7, <1>11, <1>12, <1>13, <1>14

LEMMA EventAsk == ASSUME Good, Own, Ask, CoreEvent PROVE Ask'
<1>1. /\ session' = session /\ adapter' = adapter /\ answers' = answers
      /\ loop' = loop /\ upstream # <<>> /\ upstream' = Tail(upstream)
      /\ Head(upstream).type = "event"
      /\ origin' = Append(origin, Head(upstream).from)
  BY DEF CoreEvent, agentSide
<1>. PICK F : upstream \in Seq(MessagesFrom(F))
  BY DEF Good, Typed
<1>. PICK M : M = MessagesFrom(F)
  OBVIOUS
<1>. PICK u \in Seq(M) : u = upstream /\ u # <<>>
  BY <1>1
<1>. PICK m \in M : m = Head(u)
  BY HeadTailProperties
<1>. PICK S : origin \in Seq(S)
  BY DEF Own
<1>. PICK n : n = Len(events)
  OBVIOUS
<1>2. /\ n \in Nat /\ events \in Seq(Event) /\ Ids(queue) = 1..n
      /\ Ids(queue') = 1..(n + 1)
      /\ \A x \in Ids(queue) : queue'[x].state = queue[x].state
      /\ queue'[n + 1].state = "New" /\ ~queue'[n + 1].superseded
  BY EventShows DEF Good
<1>3. PICK event \in Event :
        /\ events' = Append(events, event) /\ event.agentSeq = m.seq
        /\ m.kind \in Opening => event.category = "Request"
        /\ m.kind \in Murmurs =>
             \A x \in Ids(queue) :
               queue'[x].superseded <=> queue[x].superseded
  BY EventShows DEF Good
<1>. PICK es : es = Append(events, event)
  OBVIOUS
<1>4. /\ es[n + 1] = event /\ \A id \in 1..n : es[id] = events[id]
  BY <1>2, Stored
<1>. PICK os : os = Append(origin, m.from)
  OBVIOUS
<1>5. /\ os[n + 1] = m.from /\ \A id \in 1..n : os[id] = origin[id]
  <2>1. Len(origin) = n
    BY DEF Own
  <2>. QED
    BY <1>2, <2>1, AppendElements
<1>6. events' = es /\ origin' = os
  BY <1>1, <1>3
<1>7. \A id \in 1..(n + 1) : id \in 1..n \/ id = n + 1
  BY <1>2
<1>8. n + 1 \in 1..(n + 1) /\ \A id \in 1..n : id \in 1..(n + 1)
  BY <1>2
<1>9. \A id \in Ids(queue') : queue'[id].state = "New"
  BY <1>2, <1>7 DEF Ask
<1>10. AnswersOver'
  <2>1. \A i \in DOMAIN answers : answers[i].id \in 1..n
    BY <1>2 DEF Good, AllTold
  <2>2. \A i \in DOMAIN answers :
          /\ es[answers[i].id] = events[answers[i].id]
          /\ os[answers[i].id] = origin[answers[i].id]
    BY <1>4, <1>5, <2>1
  <2>. QED
    BY <1>1, <1>6, <2>2 DEF Ask, AnswersOver
<1>11. ASSUME NEW k, Announces(m, k) PROVE InQueue(k)'
  <2>1. /\ os[n + 1].session = session /\ es[n + 1].agentSeq = k
        /\ es[n + 1].category = "Request"
    BY <1>3, <1>4, <1>5, <1>11 DEF Announces
  <2>2. n + 1 \in Ids(queue')
    BY <1>2, <1>8
  <2>. QED
    BY <1>1, <1>2, <1>6, <2>1, <2>2 DEF InQueue, IsRequest
<1>12. ASSUME NEW k, InQueue(k), Harmless(m) PROVE InQueue(k)'
  <2>1. PICK id \in 1..n :
          /\ origin[id].session = session /\ events[id].agentSeq = k
          /\ IsRequest(id) /\ ~queue[id].superseded
    BY <1>2, <1>12 DEF InQueue
  <2>2. m.kind \in Murmurs
    BY <1>1, <1>12 DEF Harmless
  <2>3. ~queue'[id].superseded
    BY <1>2, <1>3, <2>1, <2>2
  <2>4. /\ os[id].session = session /\ es[id].agentSeq = k
        /\ es[id].category = "Request"
    BY <1>4, <1>5, <2>1 DEF IsRequest
  <2>5. id \in Ids(queue')
    BY <1>2, <1>8
  <2>. QED
    BY <1>1, <1>6, <2>3, <2>4, <2>5 DEF InQueue, IsRequest
<1>13. ASSUME NEW k, Heard(k) PROVE Heard(k)'
  <2>1. CASE Announced(loop.outgoing, k)
    <3>1. Announced(loop.outgoing, k)'
      BY <1>1, <2>1, NextSaid
    <3>. QED
      BY <3>1 DEF Heard
  <2>2. CASE Announced(u, k) /\ Silent(loop.outgoing)
    <3>1. \/ Announced(Tail(u), k)
          \/ Announces(m, k) /\ Silent(Tail(u))
      BY <2>2, HeadTaken
    <3>2. /\ Announced(Tail(u), k) => Announced(upstream, k)'
          /\ Silent(Tail(u)) => Silent(upstream)'
          /\ Silent(loop.outgoing)'
      BY <1>1, <2>2, NextSaid
    <3>. QED
      BY <1>11, <3>1, <3>2 DEF Heard
  <2>3. CASE InQueue(k) /\ Silent(u) /\ Silent(loop.outgoing)
    <3>1. Harmless(m) /\ Silent(Tail(u))
      BY <2>3, HeadTaken
    <3>2. Silent(upstream)' /\ Silent(loop.outgoing)'
      BY <1>1, <2>3, <3>1, NextSaid
    <3>. QED
      BY <1>12, <2>3, <3>1, <3>2 DEF Heard
  <2>. QED
    BY <1>13, <2>1, <2>2, <2>3 DEF Heard
<1>. PICK b : b = adapter
  OBVIOUS
<1>14. ASSUME b.pending # None PROVE Heard(b.pending.seq)'
  <2>. PICK k : k = b.pending.seq
    OBVIOUS
  <2>1. Heard(k)'
    BY <1>13, <1>14 DEF Ask
  <2>. QED
    BY <1>1, <2>1 DEF Heard, Announced, Announces, InQueue
<1>. QED
  BY <1>1, <1>9, <1>10, <1>14 DEF Ask, Buffers

LEMMA AskStep == ASSUME Good, Own, Ask, [DaemonNext]_daemon PROVE Ask'
<1>1. CASE UNCHANGED daemon
  <2>1. /\ UNCHANGED core /\ upstream' = upstream /\ answers' = answers
        /\ loop' = loop /\ adapter' = adapter /\ session' = session
        /\ origin' = origin
    BY <1>1 DEF daemon, history, agentSide
  <2>2. loop'.outgoing = loop.outgoing
    BY <2>1
  <2>. QED
    BY <2>1, <2>2, QueueRests, StillHeard, AskKept
<1>. QED
  BY <1>1, PollAsk, SendAsk, SelectAsk, DeliverAsk, PromptAsk, EventAsk,
     HearAsk, ClientAsk, AgentAsk
     DEF DaemonNext, LoopNext, CoreNext

LEMMA AskStarts == DaemonInit => Ask
<1>. SUFFICES ASSUME DaemonInit PROVE Ask
  OBVIOUS
<1>1. answers = <<>> /\ queue = <<>> /\ Agent!Init
  BY DEF DaemonInit, Init
<1>2. adapter.pending = None /\ adapter.buffer = <<>>
  BY <1>1 DEF Agent!Init, Agent!NewAdapter
<1>. QED
  BY <1>1, <1>2 DEF Ask, AnswersOver, Buffers, Ids

LEMMA AskInvariant == DaemonSpec => []Ask
<1>1. Good /\ Own /\ Ask /\ [DaemonNext]_daemon => Ask'
  BY AskStep
<1>. QED
  BY <1>1, AskStarts, DaemonInvariant, OwnInvariant, PTL DEF DaemonSpec

(* AskedAnswerable: whatever the adapter told while the request was        *)
(* pending, and whatever the clients, the channels and earlier processes   *)
(* did, once nothing is on its way the clients can answer the request the  *)
(* adapter has pending (adapter.rs:365, core_task.rs:254).                 *)
THEOREM AskedAnswerable == DaemonSpec => []AskedIsAnswerable
<1>1. Good /\ Own /\ Ask => AskedIsAnswerable
  <2>. SUFFICES ASSUME Good, Own, Ask, Settled, adapter.pending # None
                PROVE  \E id \in Ids(queue) :
                         /\ origin[id].session = session
                         /\ events[id].agentSeq = adapter.pending.seq
                         /\ IsActionable(queue[id])
    BY DEF AskedIsAnswerable
  <2>1. /\ DOMAIN loop.outgoing = {} /\ DOMAIN upstream = {}
        /\ DOMAIN commands = {}
    BY DEF Settled
  <2>2. InQueue(adapter.pending.seq)
    BY <2>1 DEF Ask, Heard, Announced
  <2>3. PICK id \in Ids(queue) :
          /\ origin[id].session = session
          /\ events[id].agentSeq = adapter.pending.seq
          /\ IsRequest(id) /\ ~queue[id].superseded
    BY <2>2 DEF InQueue
  <2>4. TypeOK /\ RequestsResolvable /\ queue[id] \in QueueEntry
    BY Store DEF Good, Typed, LInv, IInv
  <2>5. queue[id].tier = 0 /\ queue[id].resolution # "None"
    BY <2>3, <2>4 DEF TypeOK, RequestsResolvable, IsRequest, Tier
  <2>6. queue[id].resolution # "PendingDelivery"
    <3>1. /\ Asking(id) = 0 /\ Sending(id) = 0 /\ Hearing(id) = 0
          /\ InFlight(id) = Asking(id) + Sending(id) + Hearing(id)
      BY <2>1, Counts DEF Good
    <3>. QED
      BY <3>1 DEF Good, PendingHasOneCarrier
  <2>7. queue[id].resolution \notin Decisions
    <3>. SUFFICES ASSUME queue[id].resolution \in Decisions PROVE FALSE
      OBVIOUS
    <3>1. PICK i \in DOMAIN answers : answers[i].id = id
      BY DEF Good, AllTold, QueueTold, TypedAs
    <3>. PICK k \in Nat : k = session
      BY Numbered
    <3>2. answers[i].session \in 1..k
      BY DEF Own
    <3>3. origin[id].session <= answers[i].session
      BY <3>1 DEF Ask, AnswersOver
    <3>4. answers[i].session = session
      BY <2>3, <3>2, <3>3
    <3>. QED
      BY <2>3, <3>1, <3>4 DEF Ask, AnswersOver
  <2>8. queue[id].state = "New"
    BY DEF Ask
  <2>9. queue[id].resolution = "Unresolved"
    BY <2>4, <2>5, <2>6, <2>7 DEF QueueEntry, Resolutions
  <2>10. IsActionable(queue[id])
    BY <2>3, <2>5, <2>8, <2>9 DEF IsActionable, IsLive
  <2>. QED
    BY <2>3, <2>10
<1>. QED
  BY <1>1, AskInvariant, OwnInvariant, DaemonInvariant, PTL

=============================================================================
