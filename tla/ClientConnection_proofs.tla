---------------------- MODULE ClientConnection_proofs ----------------------
(***************************************************************************)
(* NothingMissed of ClientConnection, for any number of clients, channels  *)
(* of any capacity, and as many changes of the queue as there may be.      *)
(*                                                                         *)
(* NothingMissed by itself is not kept by every step: between two messages *)
(* of one step of the core a client may lack a change that is still to be  *)
(* sent, and a sink that is new may be the second of its client.  Kept     *)
(* says what the core still has to send (Telling), that a client has a     *)
(* sink once at most and was sent nothing before (Fresh, ConnectOnce), and *)
(* that what comes next for a client is what follows on the last message   *)
(* it was sent (UpToDate).                                                 *)
(***************************************************************************)
EXTENDS ClientConnection, SequenceTheorems, TLAPS

Messages == [type : {"snapshot", "update", "result"}, changes : Nat]

Commands ==
  [do : {"connect", "disconnect", "snapshot", "event", "ask"}, client : Nat]

Places == {"none", "hello", "connect", "welcome", "undo", "snapshot",
           "select", "refuse", "write", "forward", "reply", "close", "bye",
           "gone"}

Early == {"none", "hello", "connect"}

(* What the variables that matter here hold.                               *)
Typed ==
  /\ accepted \in Nat
  /\ inbox \in Seq(Commands)
  /\ changes \in Nat
  /\ telling \in Seq([to : SUBSET Nat, message : Messages])
  /\ at \in [Ids -> Places]
  /\ outbound \in [Ids -> Seq(Messages)]
  /\ held \in [Ids -> Seq(Messages)]
  /\ wire \in [Ids -> Seq(Messages)]
  /\ seen \in [Ids -> Seq(Messages)]

(* What the core has still to send: it tells how often the queue has       *)
(* changed by now, and an update comes first and is for everybody.         *)
Telling ==
  \A i \in 1..Len(telling) :
    /\ telling[i].message.changes = changes
    /\ telling[i].message.type = "update" => i = 1 /\ telling[i].to = Ids

Silent(c) ==
  seen[c] = <<>> /\ wire[c] = <<>> /\ held[c] = <<>> /\ outbound[c] = <<>>

ConnectWaits(c) == \E i \in 1..Len(inbox) : inbox[i] = Command("connect", c)

(* A client that has no sink yet was sent nothing.                         *)
Fresh(c) ==
  at[c] \in Early \/ ConnectWaits(c) => Silent(c) /\ c \notin sinks

(* A client asks for a sink once.                                          *)
ConnectOnce(c) ==
  /\ at[c] \in Early => ~ConnectWaits(c)
  /\ \A i, j \in 1..Len(inbox) :
       inbox[i] = Command("connect", c) /\ inbox[j] = Command("connect", c)
         => i = j

(* A message is held only while it is being written.                       *)
Holding(c) == held[c] # <<>> => at[c] = "write"

OneSeen(c) == Len(seen[c]) <= 1

(* What comes next follows on what was sent last.                          *)
UpToDate(c) ==
  LET s == Stream(c) IN
  c \in sinks /\ s # <<>>
    => IF telling = <<>> THEN s[Len(s)].changes = changes
       ELSE Follows(telling[1].message, s[Len(s)])

Kept ==
  /\ Typed
  /\ Telling
  /\ \A c \in Ids : Fresh(c) /\ ConnectOnce(c) /\ Holding(c) /\ OneSeen(c)
  /\ \A c \in Ids \ left : Ordered(Stream(c)) /\ UpToDate(c)

-----------------------------------------------------------------------------
(* Lemmas about sequences, and streams.                                    *)

(* Stream(c), as what its four parts make.                                 *)
Joined(read, written, taken, waiting) ==
  read \o written \o taken \o waiting

LEMMA JoinedType ==
  ASSUME NEW a \in Seq(Messages), NEW b \in Seq(Messages),
         NEW d \in Seq(Messages), NEW e \in Seq(Messages)
  PROVE  Joined(a, b, d, e) \in Seq(Messages)
BY ConcatProperties DEF Joined

LEMMA JoinedEmpty ==
  Joined(<<>>, <<>>, <<>>, <<>>) = <<>>
BY EmptySeq, ConcatEmptySeq DEF Joined

(* What is put into the channel comes last.                                *)
LEMMA ConcatPuts ==
  ASSUME NEW f \in Seq(Messages), NEW e \in Seq(Messages),
         NEW m \in Messages
  PROVE  f \o Append(e, m) = Append(f \o e, m)
<1>1. f \o e \in Seq(Messages) /\ <<m>> \in Seq(Messages)
  BY ConcatProperties
<1>2. Append(e, m) = e \o <<m>> /\ Append(f \o e, m) = (f \o e) \o <<m>>
  BY <1>1, AppendIsConcat
<1>3. (f \o e) \o <<m>> = f \o (e \o <<m>>)
  BY <1>1, ConcatAssociative
<1>. QED
  BY <1>2, <1>3

(* What is taken from the channel is still on its way.                     *)
LEMMA JoinedTakes ==
  ASSUME NEW a \in Seq(Messages), NEW b \in Seq(Messages),
         NEW e \in Seq(Messages), e # <<>>
  PROVE  Joined(a, b, <<Head(e)>>, Tail(e)) = Joined(a, b, <<>>, e)
<1>. DEFINE f == a \o b
<1>1. f \in Seq(Messages)
  BY ConcatProperties
<1>2. /\ Head(e) \in Messages /\ Tail(e) \in Seq(Messages)
      /\ <<Head(e)>> \in Seq(Messages)
      /\ e = <<Head(e)>> \o Tail(e)
  BY HeadTailProperties
<1>. HIDE DEF f
<1>3. (f \o <<Head(e)>>) \o Tail(e) = f \o (<<Head(e)>> \o Tail(e))
  BY <1>1, <1>2, ConcatAssociative
<1>4. f \o <<>> = f
  BY <1>1, ConcatEmptySeq
<1>. QED
  BY <1>2, <1>3, <1>4 DEF Joined, f

(* And so is what is written.                                              *)
LEMMA JoinedWrites ==
  ASSUME NEW a \in Seq(Messages), NEW b \in Seq(Messages),
         NEW d \in Seq(Messages), NEW e \in Seq(Messages)
  PROVE  Joined(a, b \o d, <<>>, e) = Joined(a, b, d, e)
<1>1. b \o d \in Seq(Messages) /\ a \o (b \o d) \in Seq(Messages)
  BY ConcatProperties
<1>2. (a \o (b \o d)) \o <<>> = a \o (b \o d)
  BY <1>1, ConcatEmptySeq
<1>3. a \o (b \o d) = (a \o b) \o d
  BY ConcatAssociative
<1>. QED
  BY <1>2, <1>3 DEF Joined

(* The client that reads forgets what it read before.                      *)
LEMMA ConcatReads ==
  ASSUME NEW a \in Seq(Messages), NEW b \in Seq(Messages),
         Len(a) <= 1, b # <<>>
  PROVE  /\ <<Head(b)>> \o Tail(b) = b
         /\ a = <<>> => a \o b = b
         /\ a # <<>> => a \o b # <<>> /\ Tail(a \o b) = b
<1>1. <<Head(b)>> \o Tail(b) = b
  BY HeadTailProperties
<1>2. a = <<>> => a \o b = b
  BY ConcatEmptySeq
<1>3. ASSUME a # <<>>
      PROVE  a \o b # <<>> /\ Tail(a \o b) = b
  <2>1. Len(a) = 1
    <3>. DEFINE n == Len(a)
    <3>1. n \in Nat \ {0} /\ n <= 1
      BY <1>3, EmptySeq
    <3>. HIDE DEF n
    <3>2. n = 1
      BY <3>1
    <3>. QED
      BY <3>2 DEF n
  <2>2. a[1] \in Messages
    <3>1. 1 \in 1..Len(a)
      BY <2>1
    <3>. QED
      BY <3>1, ElementOfSeq
  <2>3. a = <<a[1]>>
    BY <2>1, <2>2, SeqEqual
  <2>4. PICK x \in Messages : a = <<x>>
    BY <2>2, <2>3
  <2>5. <<x>> \o b # <<>> /\ Tail(<<x>> \o b) = b
    <3>0. <<x>> \in Seq(Messages) /\ Len(<<x>>) = 1
      OBVIOUS
    <3>. PICK o \in Seq(Messages) : o = <<x>> /\ Len(o) = 1
      BY <3>0
    <3>. PICK c \in Seq(Messages) : c = o \o b
      BY ConcatProperties
    <3>1. /\ Len(b) \in Nat /\ Len(c) = Len(b) + 1
          /\ \A i \in 1..Len(b) : c[i + 1] = b[i]
      <4>1. /\ Len(b) \in Nat /\ Len(c) = 1 + Len(b)
            /\ \A i \in 1..(1 + Len(b)) : c[i] = IF i <= 1 THEN o[i] ELSE b[i - 1]
        BY ConcatProperties, LenProperties
      <4>. QED
        BY <4>1
    <3>2. c # <<>>
      BY <3>1, EmptySeq
    <3>3. /\ Tail(c) \in Seq(Messages) /\ Len(Tail(c)) = Len(b)
          /\ \A i \in 1..Len(Tail(c)) : Tail(c)[i] = b[i]
      BY <3>1, <3>2, HeadTailProperties
    <3>4. Tail(c) = b
      BY <3>3, SeqEqual
    <3>. QED
      BY <3>2, <3>4
  <2>. QED
    BY <2>4, <2>5
<1>. QED
  BY <1>1, <1>2, <1>3

LEMMA TailConcat ==
  ASSUME NEW p \in Seq(Messages), NEW d \in Seq(Messages), p # <<>>
  PROVE  p \o d # <<>> /\ Tail(p \o d) = Tail(p) \o d
<1>1. /\ p \o d \in Seq(Messages) /\ Len(p \o d) = Len(p) + Len(d)
      /\ Len(p) \in Nat \ {0} /\ Len(d) \in Nat
      /\ \A i \in 1..(Len(p) + Len(d)) :
           (p \o d)[i] = IF i <= Len(p) THEN p[i] ELSE d[i - Len(p)]
  BY ConcatProperties, EmptySeq, LenProperties
<1>2. p \o d # <<>>
  BY <1>1, ConcatEqualIffEmpty
<1>3. /\ Tail(p \o d) \in Seq(Messages)
      /\ Len(Tail(p \o d)) = Len(p) + Len(d) - 1
      /\ \A i \in 1..Len(Tail(p \o d)) : Tail(p \o d)[i] = (p \o d)[i + 1]
  BY <1>1, <1>2, HeadTailProperties
<1>4. /\ Tail(p) \in Seq(Messages) /\ Len(Tail(p)) = Len(p) - 1
      /\ \A i \in 1..Len(Tail(p)) : Tail(p)[i] = p[i + 1]
  BY HeadTailProperties
<1>5. /\ Tail(p) \o d \in Seq(Messages)
      /\ Len(Tail(p) \o d) = Len(Tail(p)) + Len(d)
      /\ \A i \in 1..(Len(Tail(p)) + Len(d)) :
           (Tail(p) \o d)[i] = IF i <= Len(Tail(p)) THEN Tail(p)[i]
                               ELSE d[i - Len(Tail(p))]
  BY <1>4, ConcatProperties
<1>6. Len(Tail(p \o d)) = Len(Tail(p) \o d)
  BY <1>1, <1>3, <1>4, <1>5
<1>7. ASSUME NEW i \in 1..Len(Tail(p \o d))
      PROVE  Tail(p \o d)[i] = (Tail(p) \o d)[i]
  <2>1. /\ i \in Nat /\ i >= 1 /\ i <= Len(p) + Len(d) - 1
        /\ i + 1 \in 1..(Len(p) + Len(d))
        /\ i \in 1..(Len(Tail(p)) + Len(d))
    BY <1>1, <1>3, <1>4
  <2>2. CASE i + 1 <= Len(p)
    <3>1. i <= Len(Tail(p)) /\ i \in 1..Len(Tail(p))
      BY <1>1, <1>4, <2>1, <2>2
    <3>. QED
      BY <1>1, <1>3, <1>4, <1>5, <2>1, <2>2, <3>1
  <2>3. CASE ~(i + 1 <= Len(p))
    <3>1. ~(i <= Len(Tail(p))) /\ i + 1 - Len(p) = i - Len(Tail(p))
      BY <1>1, <1>4, <2>1, <2>3
    <3>. QED
      BY <1>1, <1>3, <1>5, <2>1, <2>3, <3>1
  <2>. QED
    BY <2>2, <2>3
<1>8. Tail(p \o d) = Tail(p) \o d
  BY <1>3, <1>5, <1>6, <1>7, SeqEqual
<1>. QED
  BY <1>2, <1>8

LEMMA OrderedPuts ==
  ASSUME NEW s \in Seq(Messages), NEW m \in Messages, Ordered(s),
         s # <<>> => Follows(m, s[Len(s)])
  PROVE  /\ Ordered(Append(s, m))
         /\ Append(s, m) # <<>>
         /\ Append(s, m)[Len(Append(s, m))] = m
<1>1. /\ Append(s, m) \in Seq(Messages)
      /\ Len(Append(s, m)) = Len(s) + 1 /\ Len(s) \in Nat
      /\ \A i \in 1..Len(s) : Append(s, m)[i] = s[i]
      /\ Append(s, m)[Len(s) + 1] = m
      /\ Append(s, m) # <<>>
  BY AppendProperties, LenProperties
<1>2. ASSUME NEW i \in 1..(Len(s) + 1 - 1)
      PROVE  Follows(Append(s, m)[i + 1], Append(s, m)[i])
  <2>1. CASE i = Len(s)
    <3>1. s # <<>>
      BY <2>1, <1>1, EmptySeq
    <3>. QED
      BY <1>1, <1>2, <2>1, <3>1
  <2>2. CASE i # Len(s)
    <3>1. i \in 1..(Len(s) - 1) /\ i + 1 \in 1..Len(s) /\ i \in 1..Len(s)
      BY <1>1, <1>2, <2>2
    <3>. QED
      BY <1>1, <3>1 DEF Ordered
  <2>. QED
    BY <2>1, <2>2
<1>. QED
  BY <1>1, <1>2 DEF Ordered

LEMMA OrderedReads ==
  ASSUME NEW s \in Seq(Messages), Ordered(s), s # <<>>
  PROVE  /\ Ordered(Tail(s))
         /\ Tail(s) # <<>> => Tail(s)[Len(Tail(s))] = s[Len(s)]
<1>1. /\ Tail(s) \in Seq(Messages)
      /\ Len(Tail(s)) = Len(s) - 1 /\ Len(s) \in Nat
      /\ \A i \in 1..Len(Tail(s)) : Tail(s)[i] = s[i + 1]
  BY HeadTailProperties, LenProperties
<1>2. ASSUME NEW i \in 1..(Len(Tail(s)) - 1)
      PROVE  Follows(Tail(s)[i + 1], Tail(s)[i])
  <2>1. /\ i \in 1..Len(Tail(s)) /\ i + 1 \in 1..Len(Tail(s))
        /\ i + 1 \in 1..(Len(s) - 1)
    BY <1>1, <1>2
  <2>. QED
    BY <1>1, <2>1 DEF Ordered
<1>3. Tail(s) # <<>> => Len(Tail(s)) \in 1..Len(Tail(s))
  BY <1>1, EmptySeq, LenProperties
<1>. QED
  BY <1>1, <1>2, <1>3 DEF Ordered

-----------------------------------------------------------------------------
(* The steps of the invariant.                                             *)

LEMMA StreamIsJoined ==
  ASSUME NEW c
  PROVE  Stream(c) = Joined(seen[c], wire[c], held[c], outbound[c])
BY DEF Stream, Joined

LEMMA StreamType ==
  ASSUME Typed, NEW c \in Ids
  PROVE  Stream(c) \in Seq(Messages)
BY JoinedType, StreamIsJoined DEF Typed

LEMMA StreamPuts ==
  ASSUME Typed, NEW c \in Ids, NEW m \in Messages
  PROVE  Joined(seen[c], wire[c], held[c], Append(outbound[c], m))
           = Append(Stream(c), m)
<1>1. /\ seen[c] \in Seq(Messages) /\ wire[c] \in Seq(Messages)
      /\ held[c] \in Seq(Messages) /\ outbound[c] \in Seq(Messages)
  BY DEF Typed
<1>2. PICK f \in Seq(Messages) : f = seen[c] \o wire[c] \o held[c]
  BY <1>1, ConcatProperties
<1>3. f \o Append(outbound[c], m) = Append(f \o outbound[c], m)
  BY <1>1, ConcatPuts
<1>. QED
  BY <1>2, <1>3 DEF Joined, Stream

LEMMA StreamReads ==
  ASSUME Typed, NEW c \in Ids, OneSeen(c), wire[c] # <<>>
  PROVE  LET new == Joined(<<Head(wire[c])>>, Tail(wire[c]), held[c],
                           outbound[c])
         IN  \/ new = Stream(c)
             \/ Stream(c) # <<>> /\ new = Tail(Stream(c))
<1>. DEFINE b == wire[c]
            p == seen[c] \o wire[c]
            new == Joined(<<Head(wire[c])>>, Tail(wire[c]), held[c],
                          outbound[c])
<1>1. /\ seen[c] \in Seq(Messages) /\ b \in Seq(Messages)
      /\ held[c] \in Seq(Messages) /\ outbound[c] \in Seq(Messages)
      /\ Len(seen[c]) <= 1 /\ b # <<>>
  BY DEF Typed, OneSeen
<1>2. p \in Seq(Messages) /\ p \o held[c] \in Seq(Messages)
  BY <1>1, ConcatProperties
<1>3. Stream(c) = p \o held[c] \o outbound[c]
  BY DEF Stream
<1>4. /\ <<Head(b)>> \o Tail(b) = b
      /\ seen[c] = <<>> => p = b
      /\ seen[c] # <<>> => p # <<>> /\ Tail(p) = b
  BY <1>1, ConcatReads
<1>5. new = b \o held[c] \o outbound[c]
  BY <1>4 DEF Joined
<1>. HIDE DEF p, new, b
<1>6. CASE seen[c] = <<>>
  BY <1>3, <1>4, <1>5, <1>6 DEF new
<1>7. CASE seen[c] # <<>>
  <2>1. PICK q \in Seq(Messages), h \in Seq(Messages), o \in Seq(Messages) :
               q = p /\ h = held[c] /\ o = outbound[c]
    BY <1>1, <1>2
  <2>2. q # <<>> /\ Tail(q) = b
    BY <1>4, <1>7, <2>1
  <2>3. q \o h # <<>> /\ Tail(q \o h) = Tail(q) \o h
    BY <2>2, TailConcat
  <2>4. PICK r \in Seq(Messages) : r = q \o h
    BY ConcatProperties
  <2>5. r \o o # <<>> /\ Tail(r \o o) = Tail(r) \o o
    BY <2>3, <2>4, TailConcat
  <2>. QED
    BY <1>3, <1>5, <2>1, <2>2, <2>3, <2>4, <2>5 DEF new
<1>. QED
  BY <1>6, <1>7

(* What is sent, and to whom, stays as it is: a task goes from one place   *)
(* to another, or a client leaves.                                         *)
Same == UNCHANGED <<inbox, sinks, changes, telling, outbound, held, wire,
                    seen>>

LEMMA GoingKeeps ==
  ASSUME Kept, Same, left \subseteq left', accepted' \in Nat,
         at' \in [Ids -> Places],
         \A c \in Ids : /\ at'[c] \in Early => at[c] \in Early
                        /\ at[c] = "write" => at'[c] = "write"
  PROVE  Kept'
<1>1. Typed'
  BY DEF Kept, Same, Typed
<1>2. Telling'
  BY DEF Kept, Same, Telling
<1>3. ASSUME NEW c \in Ids
      PROVE  (Fresh(c) /\ ConnectOnce(c) /\ Holding(c) /\ OneSeen(c))'
  BY <1>3 DEF Kept, Same, Fresh, ConnectOnce, ConnectWaits, Holding, OneSeen,
              Silent
<1>4. ASSUME NEW c \in Ids \ left'
      PROVE  (Ordered(Stream(c)) /\ UpToDate(c))'
  BY <1>4 DEF Kept, Same, Ordered, Stream, UpToDate
<1>. QED
  BY <1>1, <1>2, <1>3, <1>4 DEF Kept

(* A command is put into the core's channel.                               *)
LEMMA SendingKeeps ==
  ASSUME Kept, NEW command \in Commands, inbox' = Append(inbox, command),
         UNCHANGED <<sinks, changes, telling, outbound, held, wire, seen>>,
         left' = left, accepted' \in Nat, at' \in [Ids -> Places],
         \A c \in Ids : /\ at'[c] \in Early => at[c] \in Early
                        /\ at[c] = "write" => at'[c] = "write"
                        /\ command = Command("connect", c)
                             => at[c] \in Early /\ at'[c] \notin Early
  PROVE  Kept'
<1>1. /\ inbox \in Seq(Commands) /\ inbox' \in Seq(Commands)
      /\ Len(inbox) \in Nat /\ Len(inbox') = Len(inbox) + 1
      /\ \A i \in 1..Len(inbox) : inbox'[i] = inbox[i]
      /\ inbox'[Len(inbox) + 1] = command
  BY AppendProperties, LenProperties DEF Kept, Typed
<1>2. Typed'
  BY <1>1 DEF Kept, Typed
<1>3. Telling'
  BY DEF Kept, Telling
<1>4. ASSUME NEW c \in Ids
      PROVE  (Fresh(c) /\ ConnectOnce(c) /\ Holding(c) /\ OneSeen(c))'
  <2>1. Fresh(c) /\ ConnectOnce(c) /\ Holding(c) /\ OneSeen(c)
    BY DEF Kept
  <2>2. ConnectWaits(c)' => ConnectWaits(c) \/ command = Command("connect", c)
    BY <1>1 DEF ConnectWaits
  <2>3. Fresh(c)'
    BY <2>1, <2>2 DEF Fresh, Silent
  <2>4. (at[c] \in Early => ~ConnectWaits(c))'
    BY <2>1, <2>2 DEF ConnectOnce
  <2>5. ASSUME NEW i \in 1..Len(inbox'), NEW j \in 1..Len(inbox'),
               inbox'[i] = Command("connect", c),
               inbox'[j] = Command("connect", c)
        PROVE  i = j
    <3>1. CASE command = Command("connect", c)
      <4>1. ~ConnectWaits(c)
        BY <2>1, <3>1 DEF ConnectOnce
      <4>2. i \notin 1..Len(inbox) /\ j \notin 1..Len(inbox)
        BY <1>1, <2>5, <4>1 DEF ConnectWaits
      <4>. QED
        BY <1>1, <4>2
    <3>2. CASE command # Command("connect", c)
      <4>1. i \in 1..Len(inbox) /\ j \in 1..Len(inbox)
        BY <1>1, <2>5, <3>2
      <4>. QED
        BY <1>1, <2>1, <2>5, <4>1 DEF ConnectOnce
    <3>. QED
      BY <3>1, <3>2
  <2>6. ConnectOnce(c)'
    BY <2>4, <2>5 DEF ConnectOnce, Command
  <2>. QED
    BY <2>1, <2>3, <2>6 DEF Holding, OneSeen
<1>5. ASSUME NEW c \in Ids \ left'
      PROVE  (Ordered(Stream(c)) /\ UpToDate(c))'
  BY <1>5 DEF Kept, Ordered, Stream, UpToDate
<1>. QED
  BY <1>2, <1>3, <1>4, <1>5 DEF Kept

(* Taking a command leaves the rest, and no more than one is the client's. *)
LEMMA TakenFromInbox ==
  ASSUME Kept, inbox # <<>>, inbox' = Tail(inbox), at' = at
  PROVE  /\ inbox' \in Seq(Commands) /\ Head(inbox) \in Commands
         /\ \A c \in Ids :
              /\ ConnectOnce(c)'
              /\ ConnectWaits(c)' => ConnectWaits(c)
              /\ Head(inbox) = Command("connect", c)
                   => ConnectWaits(c) /\ ~ConnectWaits(c)'
<1>1. /\ inbox \in Seq(Commands) /\ inbox' \in Seq(Commands)
      /\ Len(inbox) \in Nat \ {0} /\ Len(inbox') = Len(inbox) - 1
      /\ \A i \in 1..Len(inbox') : inbox'[i] = inbox[i + 1]
      /\ Head(inbox) = inbox[1] /\ Head(inbox) \in Commands
  BY HeadTailProperties, EmptySeq DEF Kept, Typed
<1>2. ASSUME NEW c \in Ids
      PROVE  /\ ConnectOnce(c)'
             /\ ConnectWaits(c)' => ConnectWaits(c)
             /\ Head(inbox) = Command("connect", c)
                  => ConnectWaits(c) /\ ~ConnectWaits(c)'
  <2>1. ConnectOnce(c)
    BY DEF Kept
  <2>2. \A i \in 1..Len(inbox') : i + 1 \in 1..Len(inbox) /\ i + 1 # 1
    BY <1>1
  <2>3. ConnectWaits(c)' => ConnectWaits(c)
    BY <1>1, <2>2 DEF ConnectWaits, Command
  <2>4. ConnectOnce(c)'
    <3>1. (at[c] \in Early => ~ConnectWaits(c))'
      BY <2>1, <2>3 DEF ConnectOnce
    <3>2. ASSUME NEW i \in 1..Len(inbox'), NEW j \in 1..Len(inbox'),
                 inbox'[i] = Command("connect", c),
                 inbox'[j] = Command("connect", c)
          PROVE  i = j
      <4>1. i + 1 = j + 1
        BY <1>1, <2>1, <2>2, <3>2 DEF ConnectOnce
      <4>. QED
        BY <1>1, <4>1
    <3>. QED
      BY <3>1, <3>2 DEF ConnectOnce, Command
  <2>5. ASSUME Head(inbox) = Command("connect", c)
        PROVE  ConnectWaits(c) /\ ~ConnectWaits(c)'
    <3>1. 1 \in 1..Len(inbox) /\ inbox[1] = Command("connect", c)
      BY <1>1, <2>5
    <3>2. ConnectWaits(c)
      BY <3>1 DEF ConnectWaits
    <3>3. ASSUME NEW i \in 1..Len(inbox'), inbox'[i] = Command("connect", c)
          PROVE  FALSE
      <4>1. inbox[i + 1] = Command("connect", c)
        BY <1>1, <3>3
      <4>2. i + 1 = 1
        BY <2>1, <2>2, <3>1, <4>1 DEF ConnectOnce
      <4>. QED
        BY <2>2, <4>2
    <3>. QED
      BY <3>2, <3>3 DEF ConnectWaits, Command
  <2>. QED
    BY <2>3, <2>4, <2>5
<1>. QED
  BY <1>1, <1>2

LEMMA OneTelling ==
  ASSUME NEW to \in SUBSET Nat, NEW m \in Messages
  PROVE  /\ <<Tell(to, m)>> \in Seq([to : SUBSET Nat, message : Messages])
         /\ Len(<<Tell(to, m)>>) = 1
         /\ <<Tell(to, m)>>[1].to = to /\ <<Tell(to, m)>>[1].message = m
BY DEF Tell

LEMMA TwoTellings ==
  ASSUME NEW first \in [to : SUBSET Nat, message : Messages],
         NEW second \in [to : SUBSET Nat, message : Messages]
  PROVE  /\ <<first, second>> \in Seq([to : SUBSET Nat, message : Messages])
         /\ Len(<<first, second>>) = 2
         /\ <<first, second>>[1] = first /\ <<first, second>>[2] = second
OBVIOUS

(* The core registers a sink or drops one: nothing is to be sent.          *)
LEMMA SinkKeeps ==
  ASSUME Kept, CoreTakes, UNCHANGED <<changes, telling>>,
         NEW c0, \/ Head(inbox) = Command("connect", c0)
                    /\ sinks' = sinks \cup {c0}
                 \/ sinks' = sinks \ {c0}
  PROVE  Kept'
<1>1. /\ inbox # <<>> /\ inbox' = Tail(inbox) /\ telling = <<>>
      /\ UNCHANGED <<accepted, at, outbound, held, wire, left, seen>>
  BY DEF CoreTakes, tasks, peers
<1>2. /\ inbox' \in Seq(Commands)
      /\ \A c \in Ids :
           /\ ConnectOnce(c)'
           /\ ConnectWaits(c)' => ConnectWaits(c)
           /\ Head(inbox) = Command("connect", c)
                => ConnectWaits(c) /\ ~ConnectWaits(c)'
  BY <1>1, TakenFromInbox
<1>3. Typed'
  BY <1>1, <1>2 DEF Kept, Typed
<1>4. Telling'
  BY DEF Kept, Telling
<1>5. ASSUME NEW c \in Ids
      PROVE  (Fresh(c) /\ ConnectOnce(c) /\ Holding(c) /\ OneSeen(c))'
  <2>1. Fresh(c) /\ ConnectOnce(c) /\ Holding(c) /\ OneSeen(c)
    BY DEF Kept
  <2>2. Fresh(c)'
    <3>1. CASE Head(inbox) = Command("connect", c)
      <4>1. ConnectWaits(c) /\ ~ConnectWaits(c)'
        BY <1>2, <3>1
      <4>2. at[c] \notin Early
        BY <2>1, <4>1 DEF ConnectOnce
      <4>. QED
        BY <1>1, <4>1, <4>2 DEF Fresh
    <3>2. CASE Head(inbox) # Command("connect", c)
      <4>1. c \in sinks' => c \in sinks
        BY <3>2
      <4>. QED
        BY <1>1, <1>2, <2>1, <4>1 DEF Fresh, Silent
    <3>. QED
      BY <3>1, <3>2
  <2>. QED
    BY <1>1, <1>2, <2>1, <2>2 DEF Holding, OneSeen
<1>6. ASSUME NEW c \in Ids \ left'
      PROVE  (Ordered(Stream(c)) /\ UpToDate(c))'
  <2>1. Ordered(Stream(c)) /\ UpToDate(c) /\ Stream(c)' = Stream(c)
    BY <1>1 DEF Kept, Stream
  <2>2. c \in sinks' => c \in sinks \/ Stream(c) = <<>>
    <3>1. CASE Head(inbox) = Command("connect", c)
      <4>1. Silent(c)
        BY <1>2, <3>1 DEF Kept, Fresh
      <4>. QED
        BY <4>1, StreamIsJoined, JoinedEmpty DEF Silent
    <3>2. CASE Head(inbox) # Command("connect", c)
      BY <3>2
    <3>. QED
      BY <3>1, <3>2
  <2>. QED
    BY <1>1, <2>1, <2>2 DEF Ordered, UpToDate
<1>. QED
  BY <1>3, <1>4, <1>5, <1>6 DEF Kept

(* The core has something to send: what comes first follows on what it     *)
(* sent before.                                                            *)
LEMMA ToTellKeeps ==
  ASSUME Kept, CoreTakes, UNCHANGED sinks, changes' \in Nat,
         telling' \in Seq([to : SUBSET Nat, message : Messages]),
         telling' # <<>>, Telling',
         changes' = changes
           + (IF telling'[1].message.type = "update" THEN 1 ELSE 0)
  PROVE  Kept'
<1>1. /\ inbox # <<>> /\ inbox' = Tail(inbox) /\ telling = <<>>
      /\ UNCHANGED <<accepted, at, outbound, held, wire, left, seen>>
  BY DEF CoreTakes, tasks, peers
<1>2. /\ inbox' \in Seq(Commands)
      /\ \A c \in Ids : /\ ConnectOnce(c)'
                        /\ ConnectWaits(c)' => ConnectWaits(c)
  BY <1>1, TakenFromInbox
<1>3. Typed'
  BY <1>1, <1>2 DEF Kept, Typed
<1>4. ASSUME NEW c \in Ids
      PROVE  (Fresh(c) /\ ConnectOnce(c) /\ Holding(c) /\ OneSeen(c))'
  BY <1>1, <1>2 DEF Kept, Fresh, Silent, Holding, OneSeen
<1>5. telling'[1].message.changes = changes'
  <2>1. 1 \in 1..Len(telling')
    BY EmptySeq, LenProperties
  <2>. QED
    BY <2>1 DEF Telling
<1>6. ASSUME NEW c \in Ids \ left'
      PROVE  (Ordered(Stream(c)) /\ UpToDate(c))'
  <2>1. Ordered(Stream(c)) /\ UpToDate(c) /\ Stream(c)' = Stream(c)
    BY <1>1 DEF Kept, Stream
  <2>2. c \in sinks /\ Stream(c) # <<>>
          => Follows(telling'[1].message, Stream(c)[Len(Stream(c))])
    BY <1>1, <1>5, <2>1 DEF UpToDate, Follows
  <2>. QED
    BY <1>1, <2>1, <2>2 DEF Ordered, UpToDate
<1>. QED
  BY <1>3, <1>4, <1>6 DEF Kept

LEMMA CoreTakesKeeps ==
  ASSUME Kept, CoreTakes
  PROVE  Kept'
<1>. DEFINE command == Head(inbox)
            c == command.client
<1>1. Step(command)
  BY DEF CoreTakes
<1>2. command \in Commands /\ c \in Nat /\ {c} \in SUBSET Nat
  BY TakenFromInbox DEF CoreTakes, Commands, tasks
<1>3. Ids \in SUBSET Nat /\ changes \in Nat
  BY DEF Kept, Typed, Ids
<1>. HIDE DEF command
<1>4. CASE /\ command.do = "connect"
           /\ sinks' = sinks \cup {c} /\ UNCHANGED <<changes, telling>>
  <2>1. command = Command("connect", c)
    BY <1>2, <1>4 DEF Command, Commands
  <2>. QED
    BY <1>4, <2>1, SinkKeeps DEF command
<1>5. CASE /\ command.do = "disconnect"
           /\ sinks' = sinks \ {c} /\ UNCHANGED <<changes, telling>>
  BY <1>5, SinkKeeps
<1>6. CASE /\ UNCHANGED <<sinks, changes>>
           /\ \E type \in {"snapshot", "result"} :
                telling' = <<Tell({c}, Message(type))>>
  <2>1. PICK type \in {"snapshot", "result"} :
               telling' = <<Tell({c}, Message(type))>>
    BY <1>6
  <2>2. /\ Message(type) \in Messages
        /\ Message(type).type # "update" /\ Message(type).changes = changes'
    BY <1>3, <1>6 DEF Message, Messages
  <2>3. /\ telling' \in Seq([to : SUBSET Nat, message : Messages])
        /\ Len(telling') = 1 /\ telling'[1].message = Message(type)
    BY <1>2, <2>1, <2>2, OneTelling
  <2>. QED
    BY <1>3, <1>6, <2>2, <2>3, ToTellKeeps DEF Telling
<1>7. CASE /\ changes' = changes + 1 /\ UNCHANGED sinks
           /\ telling' = <<Tell(Ids, Message("update"))>>
  <2>1. /\ Message("update") \in Messages
        /\ Message("update").type = "update"
        /\ Message("update").changes = changes'
    BY <1>3, <1>7 DEF Message, Messages
  <2>2. /\ telling' \in Seq([to : SUBSET Nat, message : Messages])
        /\ Len(telling') = 1 /\ telling'[1].to = Ids
        /\ telling'[1].message = Message("update")
    BY <1>3, <1>7, <2>1, OneTelling
  <2>. QED
    BY <1>3, <1>7, <2>1, <2>2, ToTellKeeps DEF Telling
<1>8. CASE /\ changes' = changes + 1 /\ UNCHANGED sinks
           /\ telling' = <<Tell(Ids, Message("update")),
                           Tell({c}, Message("result"))>>
  <2>1. /\ Message("update") \in Messages /\ Message("result") \in Messages
        /\ Message("update").type = "update"
        /\ Message("result").type # "update"
        /\ Message("update").changes = changes'
        /\ Message("result").changes = changes'
    BY <1>3, <1>8 DEF Message, Messages
  <2>2. /\ telling' \in Seq([to : SUBSET Nat, message : Messages])
        /\ Len(telling') = 2 /\ telling'[1].to = Ids
        /\ telling'[1].message = Message("update")
        /\ telling'[2].message = Message("result")
    <3>. DEFINE u == Message("update")
                r == Message("result")
    <3>1. telling' = <<Tell(Ids, u), Tell({c}, r)>>
      BY <1>8
    <3>2. u \in Messages /\ r \in Messages
      BY <2>1
    <3>. HIDE DEF u, r, c
    <3>3. /\ telling' \in Seq([to : SUBSET Nat, message : Messages])
          /\ Len(telling') = 2 /\ telling'[1].to = Ids
          /\ telling'[1].message = u /\ telling'[2].message = r
      <4>1. /\ Tell(Ids, u) \in [to : SUBSET Nat, message : Messages]
            /\ Tell(Ids, u).to = Ids /\ Tell(Ids, u).message = u
        BY <1>3, <3>2 DEF Tell
      <4>2. /\ Tell({c}, r) \in [to : SUBSET Nat, message : Messages]
            /\ Tell({c}, r).message = r
        BY <1>2, <3>2 DEF Tell
      <4>. QED
        BY <3>1, <4>1, <4>2, TwoTellings
    <3>. QED
      BY <3>3 DEF u, r
  <2>3. Telling'
    <3>1. 1..2 = {1, 2}
      OBVIOUS
    <3>. QED
      BY <2>1, <2>2, <3>1 DEF Telling
  <2>. QED
    BY <1>3, <1>8, <2>1, <2>2, <2>3, ToTellKeeps
<1>. QED
  BY <1>1, <1>4, <1>5, <1>6, <1>7, <1>8 DEF Step

(* The core sends a message: who gets it is told what follows, who does    *)
(* not get it and keeps a sink is told no change.                          *)
LEMMA CoreTellsKeeps ==
  ASSUME Kept, CoreTells
  PROVE  Kept'
<1>. DEFINE m == telling[1].message
            to == telling[1].to
            full == {c \in to \cap sinks : Full(c)}
            dead == {c \in to \cap sinks : at[c] = "gone"}
            given == (to \cap sinks) \ (full \cup dead)
<1>1. /\ telling # <<>> /\ telling' = Tail(telling)
      /\ UNCHANGED <<accepted, inbox, changes, at, held, wire, left, seen>>
      /\ outbound' = [c \in Ids |-> IF c \in given
                                    THEN Append(outbound[c], m)
                                    ELSE outbound[c]]
      /\ sinks' = sinks \ (full \cup dead)
  BY DEF CoreTells, HandTo, peers
<1>2. /\ telling \in Seq([to : SUBSET Nat, message : Messages])
      /\ telling' \in Seq([to : SUBSET Nat, message : Messages])
      /\ Len(telling) \in Nat \ {0} /\ Len(telling') = Len(telling) - 1
      /\ \A i \in 1..Len(telling') : telling'[i] = telling[i + 1]
      /\ telling[1] \in [to : SUBSET Nat, message : Messages]
  <2>1. telling \in Seq([to : SUBSET Nat, message : Messages])
    BY DEF Kept, Typed
  <2>2. Len(telling) \in Nat \ {0}
    BY <1>1, <2>1, EmptySeq
  <2>3. telling[1] \in [to : SUBSET Nat, message : Messages]
    <3>1. 1 \in 1..Len(telling)
      BY <2>2
    <3>. QED
      BY <2>1, <3>1, ElementOfSeq
  <2>. QED
    BY <1>1, <2>1, <2>2, <2>3, HeadTailProperties
<1>3. /\ m \in Messages /\ m.changes = changes
      /\ m.type = "update" => to = Ids
  <2>1. 1 \in 1..Len(telling)
    BY <1>2
  <2>. QED
    BY <1>2, <2>1 DEF Kept, Telling
<1>. HIDE DEF full, dead, m, to
<1>4. /\ sinks' \subseteq sinks
      /\ \A c \in sinks' \ given : c \notin to
  BY <1>1
<1>5. ASSUME NEW c \in Ids
      PROVE  /\ outbound'[c] \in Seq(Messages)
             /\ c \notin given => outbound'[c] = outbound[c]
             /\ c \in given => outbound'[c] = Append(outbound[c], m)
  <2>1. outbound[c] \in Seq(Messages)
    BY DEF Kept, Typed
  <2>2. Append(outbound[c], m) \in Seq(Messages)
    BY <1>3, <2>1, AppendProperties
  <2>. QED
    BY <1>1, <2>1, <2>2
<1>6. outbound' \in [Ids -> Seq(Messages)]
  BY <1>1, <1>5
<1>7. given \subseteq sinks
  OBVIOUS
<1>. HIDE DEF given
<1>8. Typed'
  BY <1>1, <1>2, <1>6 DEF Kept, Typed
<1>9. /\ Telling'
      /\ telling' # <<>> => /\ telling'[1].message.changes = changes
                            /\ telling'[1].message.type # "update"
  <2>1. ASSUME NEW i \in 1..Len(telling')
        PROVE  /\ telling'[i].message.changes = changes
               /\ telling'[i].message.type # "update"
    <3>1. i + 1 \in 1..Len(telling) /\ i + 1 # 1
      BY <1>2
    <3>. QED
      BY <1>2, <3>1 DEF Kept, Telling
  <2>2. telling' # <<>> => 1 \in 1..Len(telling')
    BY <1>2, EmptySeq
  <2>. QED
    BY <1>1, <2>1, <2>2 DEF Telling
<1>10. ASSUME NEW c \in Ids
       PROVE  (Fresh(c) /\ ConnectOnce(c) /\ Holding(c) /\ OneSeen(c))'
  <2>1. Fresh(c) /\ ConnectOnce(c) /\ Holding(c) /\ OneSeen(c)
    BY DEF Kept
  <2>2. ConnectWaits(c)' = ConnectWaits(c)
    BY <1>1 DEF ConnectWaits
  <2>3. Fresh(c)'
    BY <1>1, <1>4, <1>5, <1>7, <2>1, <2>2 DEF Fresh, Silent
  <2>. QED
    BY <1>1, <2>1, <2>2, <2>3 DEF ConnectOnce, Holding, OneSeen
<1>11. ASSUME NEW c \in Ids \ left'
       PROVE  (Ordered(Stream(c)) /\ UpToDate(c))'
  <2>. DEFINE s == Stream(c)
  <2>1. Ordered(s) /\ UpToDate(c) /\ s \in Seq(Messages)
    BY <1>1, StreamType DEF Kept
  <2>2. CASE c \in given
    <3>1. Stream(c)' = Append(s, m)
      <4>1. Stream(c)' = Joined(seen[c], wire[c], held[c],
                                Append(outbound[c], m))
        BY <1>1, <1>5, <2>2 DEF Stream, Joined
      <4>. QED
        BY <1>3, <4>1, StreamPuts DEF Kept
    <3>2. s # <<>> => Follows(m, s[Len(s)])
      BY <1>1, <1>7, <2>1, <2>2 DEF UpToDate, m
    <3>. HIDE DEF s
    <3>3. /\ Ordered(Append(s, m)) /\ Append(s, m) # <<>>
          /\ Append(s, m)[Len(Append(s, m))] = m
      BY <1>3, <2>1, <3>2, OrderedPuts
    <3>4. Ordered(Stream(c))'
      BY <3>1, <3>3 DEF Ordered
    <3>5. UpToDate(c)'
      BY <1>1, <1>3, <1>9, <3>1, <3>3 DEF UpToDate, Follows, Messages
    <3>. QED
      BY <3>4, <3>5
  <2>3. CASE c \notin given
    <3>1. Stream(c)' = s
      BY <1>1, <1>5, <2>3 DEF Stream
    <3>2. c \in sinks' /\ s # <<>> => s[Len(s)].changes = changes
      <4>. SUFFICES ASSUME c \in sinks', s # <<>>
                    PROVE  s[Len(s)].changes = changes
        OBVIOUS
      <4>1. c \in sinks /\ m.type # "update"
        BY <1>3, <1>4, <2>3
      <4>2. Follows(m, s[Len(s)])
        BY <1>1, <2>1, <4>1 DEF UpToDate, m
      <4>3. s[Len(s)] \in Messages
        BY <2>1, EmptySeq, LenProperties, ElementOfSeq
      <4>. QED
        BY <1>3, <4>1, <4>2, <4>3 DEF Follows, Messages
    <3>. HIDE DEF s
    <3>3. Ordered(Stream(c))'
      BY <2>1, <3>1 DEF Ordered
    <3>4. c \in sinks' /\ s # <<>> => s[Len(s)] \in Messages
      BY <2>1, EmptySeq, LenProperties, ElementOfSeq
    <3>5. UpToDate(c)'
      BY <1>1, <1>9, <3>1, <3>2, <3>4 DEF UpToDate, Follows, Messages
    <3>. QED
      BY <3>3, <3>5
  <2>. QED
    BY <2>2, <2>3
<1>. QED
  BY <1>8, <1>9, <1>10, <1>11 DEF Kept

(* What a client gets without the core's doing: the task of its connection *)
(* moves a message on, or the client reads one and forgets the last.       *)
LEMMA MovingKeeps ==
  ASSUME Kept, NEW c0 \in Ids,
         UNCHANGED <<accepted, inbox, sinks, changes, telling>>,
         left' = left, Typed',
         \A c \in Ids : /\ at'[c] \in Early => at[c] \in Early
                        /\ c # c0 => at'[c] = at[c]
                        /\ c # c0 => /\ seen'[c] = seen[c]
                                     /\ wire'[c] = wire[c]
                                     /\ held'[c] = held[c]
                                     /\ outbound'[c] = outbound[c],
         at[c0] \notin Early, ConnectWaits(c0) => Silent(c0)',
         Holding(c0)', OneSeen(c0)',
         c0 \notin left
           => \/ Stream(c0)' = Stream(c0)
              \/ Stream(c0) # <<>> /\ Stream(c0)' = Tail(Stream(c0))
  PROVE  Kept'
<1>1. Telling'
  BY DEF Kept, Telling
<1>2. ASSUME NEW c \in Ids
      PROVE  (Fresh(c) /\ ConnectOnce(c) /\ Holding(c) /\ OneSeen(c))'
  <2>1. Fresh(c) /\ ConnectOnce(c) /\ Holding(c) /\ OneSeen(c)
    BY DEF Kept
  <2>2. ConnectWaits(c)' = ConnectWaits(c)
    BY DEF ConnectWaits
  <2>3. ConnectOnce(c)'
    BY <2>1, <2>2 DEF ConnectOnce
  <2>4. CASE c = c0
    BY <2>1, <2>2, <2>3, <2>4 DEF Fresh
  <2>5. CASE c # c0
    <3>1. Fresh(c)'
      BY <2>1, <2>2, <2>5 DEF Fresh, Silent
    <3>. QED
      BY <2>1, <2>3, <2>5, <3>1 DEF Holding, OneSeen
  <2>. QED
    BY <2>4, <2>5
<1>3. ASSUME NEW c \in Ids \ left'
      PROVE  (Ordered(Stream(c)) /\ UpToDate(c))'
  <2>1. Ordered(Stream(c)) /\ UpToDate(c) /\ Stream(c) \in Seq(Messages)
    BY <1>3, StreamType DEF Kept
  <2>2. \/ Stream(c)' = Stream(c)
        \/ Stream(c) # <<>> /\ Stream(c)' = Tail(Stream(c))
    <3>1. CASE c = c0
      BY <3>1
    <3>2. CASE c # c0
      BY <3>2 DEF Stream
    <3>. QED
      BY <3>1, <3>2
  <2>3. CASE Stream(c)' = Stream(c)
    BY <2>1, <2>3 DEF Ordered, UpToDate
  <2>4. CASE Stream(c) # <<>> /\ Stream(c)' = Tail(Stream(c))
    <3>1. /\ Ordered(Tail(Stream(c)))
          /\ Tail(Stream(c)) # <<>>
               => Tail(Stream(c))[Len(Tail(Stream(c)))]
                    = Stream(c)[Len(Stream(c))]
      BY <2>1, <2>4, OrderedReads
    <3>2. Ordered(Stream(c))'
      BY <2>4, <3>1 DEF Ordered
    <3>3. UpToDate(c)'
      BY <2>1, <2>4, <3>1 DEF UpToDate
    <3>. QED
      BY <3>2, <3>3
  <2>. QED
    BY <2>2, <2>3, <2>4
<1>. QED
  BY <1>1, <1>2, <1>3 DEF Kept

LEMMA TakesOutboundKeeps ==
  ASSUME Kept, NEW c \in Ids, TakesOutbound(c)
  PROVE  Kept'
<1>1. /\ at[c] = "select" /\ at' = [at EXCEPT ![c] = "write"]
      /\ outbound[c] # <<>>
      /\ held' = [held EXCEPT ![c] = <<Head(outbound[c])>>]
      /\ outbound' = [outbound EXCEPT ![c] = Tail(outbound[c])]
      /\ UNCHANGED <<accepted, inbox, sinks, changes, telling, wire, left,
                     seen>>
  BY DEF TakesOutbound, Goes, core, peers
<1>2. /\ Typed /\ Fresh(c) /\ Holding(c) /\ OneSeen(c)
      /\ seen[c] \in Seq(Messages) /\ wire[c] \in Seq(Messages)
      /\ outbound[c] \in Seq(Messages)
  BY DEF Kept, Typed
<1>3. held[c] = <<>>
  BY <1>1, <1>2 DEF Holding
<1>4. /\ <<Head(outbound[c])>> \in Seq(Messages)
      /\ Tail(outbound[c]) \in Seq(Messages)
  BY <1>1, <1>2, HeadTailProperties
<1>5. Typed'
  BY <1>1, <1>2, <1>4 DEF Typed, Places
<1>6. held'[c] = <<Head(outbound[c])>> /\ outbound'[c] = Tail(outbound[c])
      /\ at'[c] = "write"
  BY <1>1, <1>2 DEF Typed
<1>7. Stream(c)' = Stream(c)
  <2>1. Joined(seen[c], wire[c], <<Head(outbound[c])>>, Tail(outbound[c]))
          = Joined(seen[c], wire[c], <<>>, outbound[c])
    BY <1>1, <1>2, JoinedTakes
  <2>2. Stream(c)' = Joined(seen[c], wire[c], <<Head(outbound[c])>>,
                            Tail(outbound[c]))
    BY <1>1, <1>6 DEF Stream, Joined
  <2>. QED
    BY <1>3, <2>1, <2>2, StreamIsJoined
<1>8. ~ConnectWaits(c)
  BY <1>1, <1>2 DEF Fresh, Silent
<1>9. \A d \in Ids : /\ at'[d] \in Early => at[d] \in Early
                     /\ d # c => at'[d] = at[d]
                     /\ d # c => /\ seen'[d] = seen[d]
                                 /\ wire'[d] = wire[d]
                                 /\ held'[d] = held[d]
                                 /\ outbound'[d] = outbound[d]
  BY <1>1, <1>2 DEF Typed, Early
<1>. QED
  BY <1>1, <1>2, <1>5, <1>6, <1>7, <1>8, <1>9, MovingKeeps
     DEF Holding, OneSeen, Early

LEMMA WritesKeeps ==
  ASSUME Kept, NEW c \in Ids, Writes(c)
  PROVE  Kept'
<1>1. /\ at[c] = "write" /\ held' = [held EXCEPT ![c] = <<>>]
      /\ UNCHANGED <<accepted, inbox, sinks, changes, telling, outbound,
                     left, seen>>
      /\ \/ /\ c \notin left /\ at' = [at EXCEPT ![c] = "select"]
            /\ wire' = [wire EXCEPT ![c] = wire[c] \o held[c]]
         \/ c \in left /\ at' = [at EXCEPT ![c] = "close"] /\ wire' = wire
  BY DEF Writes, Goes, core
<1>2. /\ Typed /\ Fresh(c) /\ OneSeen(c) /\ c \in DOMAIN wire
      /\ seen[c] \in Seq(Messages) /\ wire[c] \in Seq(Messages)
      /\ held[c] \in Seq(Messages) /\ outbound[c] \in Seq(Messages)
  BY DEF Kept, Typed
<1>3. wire[c] \o held[c] \in Seq(Messages) /\ <<>> \in Seq(Messages)
  BY <1>2, ConcatProperties, EmptySeq
<1>4. Typed'
  BY <1>1, <1>2, <1>3 DEF Typed, Places
<1>5. held'[c] = <<>> /\ at'[c] \in {"select", "close"}
  BY <1>1, <1>2 DEF Typed
<1>6. ConnectWaits(c) => Silent(c)'
  <2>. SUFFICES ASSUME ConnectWaits(c) PROVE Silent(c)'
    OBVIOUS
  <2>1. seen[c] = <<>> /\ wire[c] = <<>> /\ held[c] = <<>>
        /\ outbound[c] = <<>>
    BY <1>2 DEF Fresh, Silent
  <2>2. <<>> \o <<>> = <<>>
    BY EmptySeq, ConcatEmptySeq
  <2>3. wire'[c] = <<>>
    BY <1>1, <1>2, <2>1, <2>2
  <2>. QED
    BY <1>1, <1>5, <2>1, <2>3 DEF Silent
<1>7. c \notin left => Stream(c)' = Stream(c)
  <2>. SUFFICES ASSUME c \notin left PROVE Stream(c)' = Stream(c)
    OBVIOUS
  <2>1. wire'[c] = wire[c] \o held[c]
    BY <1>1, <1>2
  <2>2. Joined(seen[c], wire[c] \o held[c], <<>>, outbound[c])
          = Joined(seen[c], wire[c], held[c], outbound[c])
    BY <1>2, JoinedWrites
  <2>3. Stream(c)' = Joined(seen[c], wire[c] \o held[c], <<>>, outbound[c])
    BY <1>1, <1>5, <2>1 DEF Stream, Joined
  <2>. QED
    BY <2>2, <2>3, StreamIsJoined
<1>8. \A d \in Ids : /\ at'[d] \in Early => at[d] \in Early
                     /\ d # c => at'[d] = at[d]
                     /\ d # c => /\ seen'[d] = seen[d]
                                 /\ wire'[d] = wire[d]
                                 /\ held'[d] = held[d]
                                 /\ outbound'[d] = outbound[d]
  BY <1>1, <1>2 DEF Typed, Early
<1>. QED
  BY <1>1, <1>2, <1>4, <1>5, <1>6, <1>7, <1>8, MovingKeeps
     DEF Holding, OneSeen, Early

LEMMA ClientReadsKeeps ==
  ASSUME Kept, NEW c \in Ids, ClientReads(c)
  PROVE  Kept'
<1>1. /\ wire[c] # <<>> /\ seen' = [seen EXCEPT ![c] = <<Head(wire[c])>>]
      /\ wire' = [wire EXCEPT ![c] = Tail(wire[c])]
      /\ UNCHANGED <<accepted, inbox, sinks, changes, telling, at, outbound,
                     held, left>>
  BY DEF ClientReads, core, tasks
<1>2. /\ Typed /\ Fresh(c) /\ Holding(c) /\ OneSeen(c)
      /\ seen[c] \in Seq(Messages) /\ wire[c] \in Seq(Messages)
      /\ held[c] \in Seq(Messages) /\ outbound[c] \in Seq(Messages)
  BY DEF Kept, Typed
<1>3. /\ <<Head(wire[c])>> \in Seq(Messages)
      /\ Tail(wire[c]) \in Seq(Messages)
      /\ Len(<<Head(wire[c])>>) = 1
  BY <1>1, <1>2, HeadTailProperties
<1>4. Typed'
  BY <1>1, <1>2, <1>3 DEF Typed
<1>5. seen'[c] = <<Head(wire[c])>> /\ wire'[c] = Tail(wire[c])
  BY <1>1, <1>2 DEF Typed
<1>6. ~ConnectWaits(c) /\ at[c] \notin Early
  BY <1>1, <1>2 DEF Fresh, Silent
<1>7. \/ Stream(c)' = Stream(c)
      \/ Stream(c) # <<>> /\ Stream(c)' = Tail(Stream(c))
  <2>1. Stream(c)' = Joined(<<Head(wire[c])>>, Tail(wire[c]), held[c],
                            outbound[c])
    BY <1>1, <1>5 DEF Stream, Joined
  <2>. QED
    BY <1>1, <1>2, <2>1, StreamReads
<1>8. \A d \in Ids : /\ at'[d] \in Early => at[d] \in Early
                     /\ d # c => at'[d] = at[d]
                     /\ d # c => /\ seen'[d] = seen[d]
                                 /\ wire'[d] = wire[d]
                                 /\ held'[d] = held[d]
                                 /\ outbound'[d] = outbound[d]
  BY <1>1, <1>2 DEF Typed
<1>. QED
  BY <1>1, <1>2, <1>3, <1>4, <1>5, <1>6, <1>7, <1>8, MovingKeeps
     DEF Holding, OneSeen

-----------------------------------------------------------------------------
(* The steps that only go on, or put a command into the core's channel.    *)

LEMMA TaskGoesKeeps ==
  ASSUME Kept, NEW c \in Ids,
         \/ TurnsAway(c) \/ Hello(c) \/ Welcomes(c) \/ SlowSeen(c)
         \/ Refuses(c) \/ SeesDropped(c) \/ Hears(c) \/ RepliesError(c)
         \/ ReadsEnd(c) \/ Closes(c)
  PROVE  Kept'
<1>1. PICK from \in Places \ {"none", "connect", "write"},
           to \in Places \ {"none", "hello"} :
        /\ at[c] = from /\ at' = [at EXCEPT ![c] = to]
        /\ from # "hello" => to # "connect"
  BY DEF Goes, Places, TurnsAway, Hello, Welcomes, SlowSeen, Refuses,
         SeesDropped, Hears, RepliesError, ReadsEnd, Closes
<1>2. Same /\ left' = left /\ accepted' = accepted
  BY DEF Same, core, peers, TurnsAway, Hello, Welcomes, SlowSeen, Refuses,
         SeesDropped, Hears, RepliesError, ReadsEnd, Closes
<1>3. /\ at' \in [Ids -> Places]
      /\ \A d \in Ids : /\ at'[d] \in Early => at[d] \in Early
                        /\ at[d] = "write" => at'[d] = "write"
  BY <1>1 DEF Kept, Typed, Early
<1>. QED
  BY <1>2, <1>3, GoingKeeps DEF Kept, Typed

LEMMA TaskSendsKeeps ==
  ASSUME Kept, NEW c \in Ids,
         \/ Connects(c) \/ Undoes(c) \/ AsksSnapshot(c) \/ Forwards(c)
         \/ Disconnects(c)
  PROVE  Kept'
<1>1. PICK from \in Places \ {"none", "hello", "write"},
           to \in Places \ Early,
           do \in {"connect", "disconnect", "snapshot", "ask", "event"} :
        /\ at[c] = from /\ at' = [at EXCEPT ![c] = to]
        /\ do = "connect" => from = "connect"
        /\ inbox' = Append(inbox, Command(do, c))
  BY DEF Goes, ForCore, Places, Early, Connects, Undoes, AsksSnapshot,
         Forwards, Disconnects
<1>2. /\ UNCHANGED <<sinks, changes, telling, outbound, held, wire, seen>>
      /\ left' = left /\ accepted' = accepted
  BY DEF peers, Connects, Undoes, AsksSnapshot, Forwards, Disconnects
<1>3. c \in Nat /\ Command(do, c) \in Commands
  BY DEF Ids, Command, Commands
<1>4. /\ at' \in [Ids -> Places]
      /\ \A d \in Ids : /\ at'[d] \in Early => at[d] \in Early
                        /\ at[d] = "write" => at'[d] = "write"
                        /\ Command(do, c) = Command("connect", d)
                             => at[d] \in Early /\ at'[d] \notin Early
  BY <1>1 DEF Kept, Typed, Early, Command
<1>. QED
  BY <1>1, <1>2, <1>3, <1>4, SendingKeeps DEF Kept, Typed

LEMMA AgentReportsKeeps ==
  ASSUME Kept, AgentReports
  PROVE  Kept'
<1>1. /\ inbox' = Append(inbox, Command("event", 0))
      /\ UNCHANGED <<accepted, sinks, changes, telling, at, outbound, held,
                     wire, left, seen>>
  BY DEF AgentReports, ForCore, tasks, peers
<1>2. /\ Command("event", 0) \in Commands
      /\ \A c \in Ids : Command("event", 0) # Command("connect", c)
  BY DEF Command, Commands
<1>. QED
  BY <1>1, <1>2, SendingKeeps DEF Kept, Typed

LEMMA AcceptKeeps ==
  ASSUME Kept, Accept
  PROVE  Kept'
<1>1. /\ at[accepted + 1] = "none"
      /\ at' = [at EXCEPT ![accepted + 1] = "hello"]
      /\ accepted' = accepted + 1
      /\ Same /\ left' = left
  BY DEF Accept, Goes, Same, core, peers
<1>2. /\ accepted' \in Nat /\ at' \in [Ids -> Places]
      /\ \A c \in Ids : /\ at'[c] \in Early => at[c] \in Early
                        /\ at[c] = "write" => at'[c] = "write"
  <2>1. at \in [Ids -> Places] /\ accepted \in Nat
    BY DEF Kept, Typed
  <2>2. accepted' \in Nat
    BY <1>1, <2>1
  <2>3. at' \in [Ids -> Places]
    <3>1. "hello" \in Places
      BY DEF Places
    <3>. QED
      BY <1>1, <2>1, <3>1
  <2>4. ASSUME NEW c \in Ids
        PROVE  /\ at'[c] \in Early => at[c] \in Early
               /\ at[c] = "write" => at'[c] = "write"
    <3>1. CASE c = accepted + 1
      BY <1>1, <3>1 DEF Early
    <3>2. CASE c # accepted + 1
      BY <1>1, <2>1, <3>2
    <3>. QED
      BY <3>1, <3>2
  <2>. QED
    BY <2>2, <2>3, <2>4
<1>. QED
  BY <1>1, <1>2, GoingKeeps

LEMMA ClientLeavesKeeps ==
  ASSUME Kept, NEW c \in Ids, ClientLeaves(c)
  PROVE  Kept'
<1>1. Same /\ left \subseteq left' /\ UNCHANGED <<accepted, at>>
  BY DEF ClientLeaves, Same, core, tasks
<1>. QED
  BY <1>1, GoingKeeps DEF Kept, Typed

-----------------------------------------------------------------------------
(* The theorem.                                                            *)

LEMMA InitKept == Init => Kept
<1>. SUFFICES ASSUME Init PROVE Kept
  OBVIOUS
<1>1. /\ accepted = 0 /\ inbox = <<>> /\ sinks = {} /\ changes = 0
      /\ telling = <<>> /\ at = [c \in Ids |-> "none"]
      /\ outbound = [c \in Ids |-> <<>>] /\ held = [c \in Ids |-> <<>>]
      /\ wire = [c \in Ids |-> <<>>] /\ seen = [c \in Ids |-> <<>>]
  BY DEF Init
<1>2. /\ <<>> \in Seq(Messages) /\ <<>> \in Seq(Commands)
      /\ <<>> \in Seq([to : SUBSET Nat, message : Messages])
      /\ Len(<<>>) = 0 /\ \A i : i \notin 1..0
  BY EmptySeq
<1>3. Typed
  BY <1>1, <1>2 DEF Typed, Places
<1>4. Telling
  BY <1>1, <1>2 DEF Telling
<1>5. ASSUME NEW c \in Ids
      PROVE  /\ Fresh(c) /\ ConnectOnce(c) /\ Holding(c) /\ OneSeen(c)
             /\ Ordered(Stream(c)) /\ UpToDate(c)
  <2>1. ~ConnectWaits(c)
    BY <1>1, <1>2 DEF ConnectWaits
  <2>2. Silent(c) /\ c \notin sinks
    BY <1>1 DEF Silent
  <2>3. Stream(c) = <<>>
    BY <2>2, StreamIsJoined, JoinedEmpty DEF Silent
  <2>4. Ordered(Stream(c))
    BY <1>2, <2>3 DEF Ordered
  <2>. QED
    BY <1>1, <1>2, <2>1, <2>2, <2>4
       DEF Fresh, ConnectOnce, Holding, OneSeen, UpToDate, Silent
<1>. QED
  BY <1>3, <1>4, <1>5 DEF Kept

LEMMA NextKept == Kept /\ [Next]_vars => Kept'
<1>. SUFFICES ASSUME Kept, [Next]_vars PROVE Kept'
  OBVIOUS
<1>1. CASE CoreTakes
  BY <1>1, CoreTakesKeeps
<1>2. CASE CoreTells
  BY <1>2, CoreTellsKeeps
<1>3. CASE AgentReports
  BY <1>3, AgentReportsKeeps
<1>4. CASE Accept
  BY <1>4, AcceptKeeps
<1>5. ASSUME NEW c \in Ids, Task(c) PROVE Kept'
  BY <1>5, TaskGoesKeeps, TaskSendsKeeps, TakesOutboundKeeps, WritesKeeps
     DEF Task
<1>6. ASSUME NEW c \in Ids, Frame(c) PROVE Kept'
  BY <1>6, TaskGoesKeeps DEF Frame
<1>7. ASSUME NEW c \in Ids, ClientReads(c) PROVE Kept'
  BY <1>7, ClientReadsKeeps
<1>8. ASSUME NEW c \in Ids, ClientLeaves(c) PROVE Kept'
  BY <1>8, ClientLeavesKeeps
<1>9. CASE UNCHANGED vars
  <2>1. Same /\ UNCHANGED <<accepted, at, left>>
    BY <1>9 DEF vars, core, tasks, peers, Same
  <2>. QED
    BY <2>1, GoingKeeps DEF Kept, Typed
<1>. QED
  BY <1>1, <1>2, <1>3, <1>4, <1>5, <1>6, <1>7, <1>8, <1>9 DEF Next

LEMMA KeptMissesNothing == Kept => NothingMissed
<1>. SUFFICES ASSUME Kept, NEW c \in Ids \ left
              PROVE  LET s == Stream(c) IN
                     /\ Ordered(s)
                     /\ c \in sinks /\ telling = <<>> /\ s # <<>>
                          => s[Len(s)].changes = changes
  BY DEF NothingMissed
<1>. QED
  BY DEF Kept, UpToDate

(* Every client of the laptop's own server gets every change of the queue  *)
(* once and in order from its first message on, and whoever has a sink has *)
(* been sent all there is: a message that finds its channel full takes the *)
(* sink away, and nothing that comes later reaches that client             *)
(* (core_task.rs, the fan-out; connection.rs, the session).                *)
THEOREM NothingIsMissed == Spec => []NothingMissed
<1>1. Spec => []Kept
  BY InitKept, NextKept, PTL DEF Spec
<1>. QED
  BY <1>1, KeptMissesNothing, PTL

=============================================================================
